---- MODULE Spec2Model ----
(***************************************************************************)
(* Model of the ru-corrector correction engine: the TextEdit value type,   *)
(* the edit reconciliation functions of CorrectionEngine and the           *)
(* correction pipeline.                                                    *)
(*                                                                         *)
(* A text is a sequence of characters; a character is a one-element token  *)
(* (a TLA+ string).  The functions of the engine are operators computed    *)
(* the way the Python code computes them; each specification draws the     *)
(* arguments of a call in its initial state and its actions perform the    *)
(* call.                                                                   *)
(***************************************************************************)
EXTENDS Integers, Sequences, FiniteSets, TLC

VARIABLES
    pc,         \* position of the caller: "start" before the call, then the name of the call made
    text,       \* the text argument of the call
    edits,      \* the list of TextEdit passed to the call
    result,     \* what the call returned
    mode,       \* the mode argument of CorrectionEngine.correct
    provider,   \* CorrectionEngine.provider
    check_calls,    \* the texts provider.check has been called with
    apply_calls,    \* the edit lists apply_edits has been called with by correct
    corrected,      \* the corrected text, the dst argument of make_diff
    module,         \* the module whose correct_text or LanguageTool client is used
    openai,         \* the environment: whether OPENAI_API_KEY is set, what the service answers
    lt_server,      \* the environment: what the LanguageTool client and server do
    calls,          \* the requests to OpenAI and to the LanguageTool server made so far
    lt_instance,    \* the module global that holds the LanguageTool client
    lt_failed,      \* core_corrector._lt_failed
    constructions,  \* the number of times the constructor of the LanguageTool client has been called
    tasks,          \* the handlers of the requests a front end has received, by request
    loop,           \* the request whose handler holds the thread of the event loop, or Idle
    files,          \* the file system: the content of every file that exists, by path
    instances       \* the bot processes that have been started, by process id

clientVars == <<lt_instance, lt_failed, constructions>>

engineVars == <<mode, provider, check_calls, apply_calls>>

serverVars == <<tasks, loop, files, instances>>

serviceVars == <<corrected, module, openai, lt_server, calls, clientVars, serverVars>>

vars == <<pc, text, edits, result, mode, provider, check_calls, apply_calls, corrected,
          module, openai, lt_server, calls, lt_instance, lt_failed, constructions,
          tasks, loop, files, instances>>

(***************************************************************************)
(* Bounds of the model.                                                    *)
(***************************************************************************)
MaxPos == 3         \* edits lie in the positions 0..MaxPos: offset + length <= MaxPos
MaxEdits == 3       \* an edit list holds at most MaxEdits edits
MaxApplied == 2     \* apply_edits is called with at most MaxApplied edits
MaxNormLen == 5     \* normalize is called on texts of at most MaxNormLen characters
MaxCorrectLen == 4  \* correct is called on texts of at most MaxCorrectLen characters
MaxProviderEdits == 2   \* a MockProvider holds at most MaxProviderEdits edits

(***************************************************************************)
(* Characters.                                                             *)
(***************************************************************************)
SP == " "
TAB == "\t"
NL == "\n"
CR == "\r"
NBSP == "NBSP"      \* U+00A0, engine.py NBSP

QUOTE == "\""        \* the straight double quote
HYPHEN == "-"
DOT == "."
PERCENT == "%"
LAQUO == "LAQUO"    \* U+00AB, the opening guillemet
RAQUO == "RAQUO"    \* U+00BB, the closing guillemet
EMDASH == "EMDASH"  \* U+2014
ELLIPSIS == "ELLIPSIS"  \* U+2026
NUMERO == "NUMERO"  \* U+2116, the numero sign
\* Cyrillic small letters, by their Unicode names.
KA == "KA"
GHE == "GHE"
EM == "EM"
ES == "ES"
EL == "EL"
SHA == "SHA"
TE == "TE"
YERU == "YERU"
EN == "EN"
ER == "ER"
DE == "DE"
PE == "PE"

\* The characters str.strip() removes and \s matches.
Whitespace == {SP, TAB, NL, CR, NBSP}

\* \d
Digits == {"0", "1", "2", "3", "4", "5", "6", "7", "8", "9"}

\* [А-Яа-яA-Za-z], as far as the model has the letters.
AsciiLetters == {"a", "b", "c", "x", "y", "z"}
CyrillicLetters == {KA, GHE, EM, ES, EL, SHA, TE, YERU, EN, ER, DE, PE}
LetterChars == AsciiLetters \cup CyrillicLetters

\* \w
WordChars == LetterChars \cup Digits \cup {"_"}

\* [.,;:!?]
Punctuation == {".", ",", ";", ":", "!", "?"}

(***************************************************************************)
(* TextEdit (core/models.py).                                              *)
(***************************************************************************)
\* (message, rule_id) of an edit: the defaults of the dataclass, or what a
\* provider match carries.
Tags == {<<"", "">>, <<"Spelling", "MORFOLOGIK_RULE_RU_RU">>}

TextEdit(offset, length, original, replacement, message, rule_id) ==
    [offset |-> offset, length |-> length, original |-> original,
     replacement |-> replacement, message |-> message, rule_id |-> rule_id]

\* The __eq__ that @dataclass generates: all six fields are compared.
TextEditEq(a, b) ==
    <<a.offset, a.length, a.original, a.replacement, a.message, a.rule_id>>
        = <<b.offset, b.length, b.original, b.replacement, b.message, b.rule_id>>

\* TextEdit.__hash__: the hash of the 4-tuple.
TextEditHash(e) == <<e.offset, e.length, e.original, e.replacement>>

\* conflicts_with with < for <=: ranges that touch at a boundary conflict.
conflicts_with_touching(self, other) ==
    ~ (self.offset + self.length < other.offset
       \/ other.offset + other.length < self.offset)

\* TextEdit.conflicts_with
conflicts_with(self, other) ==
    ~ (self.offset + self.length <= other.offset
       \/ other.offset + other.length <= self.offset)

(***************************************************************************)
(* Helpers standing for Python built-ins.                                  *)
(***************************************************************************)
\* s[i:j] of Python for 0 <= i, 0 <= j (indices past the end are clipped).
Slice(s, i, j) ==
    LET lo == IF i > Len(s) THEN Len(s) ELSE i
        hi == IF j > Len(s) THEN Len(s) ELSE j
    IN IF hi <= lo THEN <<>> ELSE SubSeq(s, lo + 1, hi)

\* s[i:] of Python.
SliceFrom(s, i) == Slice(s, i, Len(s))

\* list(dict.fromkeys(edits)): the first occurrence of every key is kept, in
\* order; two edits are the same key when their hashes and they are equal.
RECURSIVE dict_fromkeys(_)
dict_fromkeys(s) ==
    IF s = <<>> THEN <<>>
    ELSE LET init == dict_fromkeys(SubSeq(s, 1, Len(s) - 1))
             e == s[Len(s)]
         IN IF \E i \in 1..Len(init) :
                   TextEditHash(init[i]) = TextEditHash(e) /\ TextEditEq(init[i], e)
            THEN init ELSE Append(init, e)

\* sorted(edits, key=lambda e: e.offset): stable, ascending.
RECURSIVE InsertAscending(_, _)
InsertAscending(e, s) ==
    IF s = <<>> THEN <<e>>
    ELSE IF Head(s).offset <= e.offset
         THEN <<Head(s)>> \o InsertAscending(e, Tail(s))
         ELSE <<e>> \o s

\* sorted(edits, key=lambda e: e.offset, reverse=True): stable, descending.
RECURSIVE InsertDescending(_, _)
InsertDescending(e, s) ==
    IF s = <<>> THEN <<e>>
    ELSE IF Head(s).offset >= e.offset
         THEN <<Head(s)>> \o InsertDescending(e, Tail(s))
         ELSE <<e>> \o s

RECURSIVE sorted_by_offset_reverse(_)
sorted_by_offset_reverse(s) ==
    IF s = <<>> THEN <<>>
    ELSE InsertDescending(s[Len(s)], sorted_by_offset_reverse(SubSeq(s, 1, Len(s) - 1)))

RECURSIVE sorted_by_offset(_)
sorted_by_offset(s) ==
    IF s = <<>> THEN <<>>
    ELSE InsertAscending(s[Len(s)], sorted_by_offset(SubSeq(s, 1, Len(s) - 1)))

(***************************************************************************)
(* CorrectionEngine.deduplicate_edits (core/engine.py).                    *)
(***************************************************************************)
\* The loop over sorted_edits: an edit is appended to the result unless it
\* conflicts with an edit already accepted.
RECURSIVE ResolveConflicts(_, _)
ResolveConflicts(sorted_edits, accepted) ==
    IF sorted_edits = <<>> THEN accepted
    ELSE LET edit == Head(sorted_edits)
             has_conflict == \E i \in 1..Len(accepted) : conflicts_with(edit, accepted[i])
         IN ResolveConflicts(Tail(sorted_edits),
                             IF has_conflict THEN accepted ELSE Append(accepted, edit))

\* deduplicate_edits without the conflict scan.
deduplicate_edits_no_resolution(es) ==
    IF es = <<>> THEN <<>> ELSE sorted_by_offset(dict_fromkeys(es))

\* deduplicate_edits scanning in descending order of offset.
deduplicate_edits_keep_later(es) ==
    IF es = <<>> THEN <<>>
    ELSE ResolveConflicts(sorted_by_offset_reverse(dict_fromkeys(es)), <<>>)

deduplicate_edits(es) ==
    IF es = <<>> THEN <<>>
    ELSE ResolveConflicts(sorted_by_offset(dict_fromkeys(es)), <<>>)

(***************************************************************************)
(* CorrectionEngine.normalize (core/engine.py); normalize of the legacy    *)
(* core_corrector.py is the same code.                                     *)
(***************************************************************************)
\* text.replace(NBSP, " ")
ReplaceNbsp(t) == [i \in 1..Len(t) |-> IF t[i] = NBSP THEN SP ELSE t[i]]

\* The text after its leading characters of the set cs.
RECURSIVE DropWhile(_, _)
DropWhile(t, cs) ==
    IF t # <<>> /\ Head(t) \in cs THEN DropWhile(Tail(t), cs) ELSE t

\* re.sub(r"[ \t]+", " ", t)
RECURSIVE CollapseBlanks(_)
CollapseBlanks(t) ==
    IF t = <<>> THEN <<>>
    ELSE IF Head(t) \in {SP, TAB}
         THEN <<SP>> \o CollapseBlanks(DropWhile(t, {SP, TAB}))
         ELSE <<Head(t)>> \o CollapseBlanks(Tail(t))

\* re.sub(r" ?\n ?", "\n", t): a newline takes the one space before it and
\* the one space after it; matches do not overlap.
RECURSIVE TrimAroundNewlines(_)
TrimAroundNewlines(t) ==
    IF t = <<>> THEN <<>>
    ELSE LET start == IF Len(t) >= 2 /\ t[1] = SP /\ t[2] = NL THEN 2
                      ELSE IF t[1] = NL THEN 1 ELSE 0
             end == IF start > 0 /\ Len(t) > start /\ t[start + 1] = SP
                    THEN start + 1 ELSE start
         IN IF start = 0 THEN <<Head(t)>> \o TrimAroundNewlines(Tail(t))
            ELSE <<NL>> \o TrimAroundNewlines(SliceFrom(t, end))

\* str.strip()
RECURSIVE StripRight(_)
StripRight(t) ==
    IF t # <<>> /\ t[Len(t)] \in Whitespace THEN StripRight(SubSeq(t, 1, Len(t) - 1)) ELSE t

Strip(t) == StripRight(DropWhile(t, Whitespace))

\* normalize with the two substitutions in the other order.
normalize_trim_before_collapse(t) ==
    Strip(CollapseBlanks(TrimAroundNewlines(ReplaceNbsp(t))))

normalize(t) == Strip(TrimAroundNewlines(CollapseBlanks(ReplaceNbsp(t))))

(***************************************************************************)
(* CorrectionEngine.apply_edits (core/engine.py).                          *)
(***************************************************************************)
\* The loop over sorted_edits: every edit is spliced into the running result
\* at its own offset.
RECURSIVE SpliceAll(_, _)
SpliceAll(res, sorted_edits) ==
    IF sorted_edits = <<>> THEN res
    ELSE LET edit == Head(sorted_edits)
         IN SpliceAll(Slice(res, 0, edit.offset) \o edit.replacement
                          \o SliceFrom(res, edit.offset + edit.length),
                      Tail(sorted_edits))

\* apply_edits splicing in ascending order of offset.
apply_edits_ascending(t, es) ==
    IF es = <<>> THEN t ELSE SpliceAll(t, sorted_by_offset(es))

apply_edits(t, es) ==
    IF es = <<>> THEN t ELSE SpliceAll(t, sorted_by_offset_reverse(es))

(***************************************************************************)
(* CorrectionEngine.apply_legal_rules (core/engine.py).  Positions of      *)
(* matches are 0-based, as in Python; t[p + 1] is the character at p.      *)
(***************************************************************************)
\* The number of characters of the set cs that t has from position p on.
RECURSIVE RunLength(_, _, _)
RunLength(t, p, cs) ==
    IF p < Len(t) /\ t[p + 1] \in cs THEN 1 + RunLength(t, p + 1, cs) ELSE 0

CharsOf(t) == { t[i] : i \in 1..Len(t) }

\* The end of the match of "([^"\n]+)" that starts at p, or 0 when the
\* pattern does not match at p.
QuoteMatchEnd(t, p) ==
    IF p < Len(t) /\ t[p + 1] = QUOTE
    THEN LET inner == RunLength(t, p + 1, CharsOf(t) \ {QUOTE, NL})
             close == p + 1 + inner
         IN IF inner >= 1 /\ close < Len(t) /\ t[close + 1] = QUOTE THEN close + 1 ELSE 0
    ELSE 0

\* re.finditer(r'"([^"\n]+)"', t) from position p on: the matches, left to
\* right, not overlapping.
RECURSIVE QuoteMatches(_, _)
QuoteMatches(t, p) ==
    IF p >= Len(t) THEN <<>>
    ELSE LET end == QuoteMatchEnd(t, p)
         IN IF end > 0 THEN <<[start |-> p, end |-> end]>> \o QuoteMatches(t, end)
            ELSE QuoteMatches(t, p + 1)

\* The body of the loop over the quote matches: t is rewritten in place and
\* offset accumulates the drift of the replacements.
RECURSIVE QuoteLoop(_, _, _, _, _)
QuoteLoop(txt, matches, t, offset, es) ==
    IF matches = <<>> THEN [t |-> t, edits |-> es]
    ELSE LET m == Head(matches)
             original == Slice(txt, m.start, m.end)
             replacement == <<LAQUO>> \o Slice(txt, m.start + 1, m.end - 1) \o <<RAQUO>>
         IN IF original # replacement
            THEN QuoteLoop(txt, Tail(matches),
                           Slice(t, 0, m.start + offset) \o replacement
                               \o SliceFrom(t, m.end + offset),
                           offset + Len(replacement) - Len(original),
                           Append(es, TextEdit(m.start + offset, Len(original), original,
                                               replacement, "Convert to Russian quotes",
                                               "RU_QUOTES")))
            ELSE QuoteLoop(txt, Tail(matches), t, offset, es)

\* The end of the match of (?<=\w)\s*-\s*(?=\w) that starts at p, or 0.
DashMatchEnd(t, p) ==
    IF p >= 1 /\ t[p] \in WordChars
    THEN LET hyphen == p + RunLength(t, p, Whitespace)
         IN IF hyphen < Len(t) /\ t[hyphen + 1] = HYPHEN
            THEN LET end == hyphen + 1 + RunLength(t, hyphen + 1, Whitespace)
                 IN IF end < Len(t) /\ t[end + 1] \in WordChars THEN end ELSE 0
            ELSE 0
    ELSE 0

\* re.finditer(r"(?<=\w)\s*-\s*(?=\w)", t) from position p on.
RECURSIVE DashMatches(_, _)
DashMatches(t, p) ==
    IF p >= Len(t) THEN <<>>
    ELSE LET end == DashMatchEnd(t, p)
         IN IF end > 0 THEN <<[start |-> p, end |-> end]>> \o DashMatches(t, end)
            ELSE DashMatches(t, p + 1)

EmDashSpaced == <<SP, EMDASH, SP>>

\* The body of the loop over the dash matches: t_new is built left to right,
\* offset is the end of the previous match.
RECURSIVE DashLoop(_, _, _, _, _)
DashLoop(text_for_dash, matches, t_new, offset, es) ==
    IF matches = <<>> THEN [t |-> t_new \o SliceFrom(text_for_dash, offset), edits |-> es]
    ELSE LET m == Head(matches)
             original == Slice(text_for_dash, m.start, m.end)
             replacement == EmDashSpaced
             grown == t_new \o Slice(text_for_dash, offset, m.start) \o replacement
             actual_offset == Len(grown) - Len(replacement)
         IN DashLoop(text_for_dash, Tail(matches), grown, m.end,
                     IF original # replacement
                     THEN Append(es, TextEdit(actual_offset, Len(original), original,
                                              replacement, "Convert to em-dash", "EM_DASH"))
                     ELSE es)

\* re.sub(r"  +", " ", t) and re.sub(r" {2,}", " ", t)
RECURSIVE CollapseSpaces(_)
CollapseSpaces(t) ==
    IF t = <<>> THEN <<>>
    ELSE IF Head(t) = SP
         THEN <<SP>> \o CollapseSpaces(DropWhile(t, {SP}))
         ELSE <<Head(t)>> \o CollapseSpaces(Tail(t))

\* re.sub(r" +([.,;:!?])", r"\1", t)
RECURSIVE TightenPunctuation(_)
TightenPunctuation(t) ==
    IF t = <<>> THEN <<>>
    ELSE IF Head(t) = SP
         THEN LET rest == DropWhile(t, {SP})
              IN IF rest # <<>> /\ Head(rest) \in Punctuation
                 THEN <<Head(rest)>> \o TightenPunctuation(Tail(rest))
                 ELSE Slice(t, 0, Len(t) - Len(rest)) \o TightenPunctuation(rest)
         ELSE <<Head(t)>> \o TightenPunctuation(Tail(t))

apply_legal_rules_no_collapse(txt) ==
    LET quoted == QuoteLoop(txt, QuoteMatches(txt, 0), txt, 0, <<>>)
        dashed == DashLoop(quoted.t, DashMatches(quoted.t, 0), <<>>, 0, quoted.edits)
    IN [t |-> TightenPunctuation(dashed.t), edits |-> dashed.edits]

\* Returns the processed text and the edits made.
apply_legal_rules(txt) ==
    LET quoted == QuoteLoop(txt, QuoteMatches(txt, 0), txt, 0, <<>>)
        dashed == DashLoop(quoted.t, DashMatches(quoted.t, 0), <<>>, 0, quoted.edits)
    IN [t |-> TightenPunctuation(CollapseSpaces(dashed.t)), edits |-> dashed.edits]

(***************************************************************************)
(* CorrectionEngine.apply_strict_rules (core/engine.py).                   *)
(***************************************************************************)
\* re.sub(r"\n{3,}", "\n\n", t)
RECURSIVE CollapseNewlines(_)
CollapseNewlines(t) ==
    IF t = <<>> THEN <<>>
    ELSE IF Head(t) = NL
         THEN LET rest == DropWhile(t, {NL})
                  run == Len(t) - Len(rest)
              IN (IF run >= 3 THEN <<NL, NL>> ELSE Slice(t, 0, run)) \o CollapseNewlines(rest)
         ELSE <<Head(t)>> \o CollapseNewlines(Tail(t))

\* re.sub(r"([.,;:!?])([А-Яа-яA-Za-z])", r"\1 \2", t)
RECURSIVE SpaceAfterPunctuation(_)
SpaceAfterPunctuation(t) ==
    IF t = <<>> THEN <<>>
    ELSE IF Len(t) >= 2 /\ t[1] \in Punctuation /\ t[2] \in LetterChars
         THEN <<t[1], SP, t[2]>> \o SpaceAfterPunctuation(SliceFrom(t, 2))
         ELSE <<Head(t)>> \o SpaceAfterPunctuation(Tail(t))

apply_strict_rules_keep_newlines(t) == SpaceAfterPunctuation(t)

apply_strict_rules(t) == SpaceAfterPunctuation(CollapseNewlines(t))

(***************************************************************************)
(* CorrectionEngine.apply_typography (core/engine.py).                     *)
(***************************************************************************)
\* re.sub(r"\.\.\.", "…", t)
RECURSIVE Ellipses(_)
Ellipses(t) ==
    IF t = <<>> THEN <<>>
    ELSE IF Len(t) >= 3 /\ t[1] = DOT /\ t[2] = DOT /\ t[3] = DOT
         THEN <<ELLIPSIS>> \o Ellipses(SliceFrom(t, 3))
         ELSE <<Head(t)>> \o Ellipses(Tail(t))

\* re.sub(r"(\d)\s*%", "\1{NBSP}%", t)
RECURSIVE NbspPercent(_)
NbspPercent(t) ==
    IF t = <<>> THEN <<>>
    ELSE LET rest == DropWhile(Tail(t), Whitespace)
         IN IF Head(t) \in Digits /\ rest # <<>> /\ Head(rest) = PERCENT
            THEN <<Head(t), NBSP, PERCENT>> \o NbspPercent(Tail(rest))
            ELSE <<Head(t)>> \o NbspPercent(Tail(t))

\* кг|г|м|км|см|мм|л|мл|шт|тыс\.|млн|млрд, in the order of the pattern.
Units ==
    << <<KA, GHE>>, <<GHE>>, <<EM>>, <<KA, EM>>, <<ES, EM>>, <<EM, EM>>, <<EL>>, <<EM, EL>>,
       <<SHA, TE>>, <<TE, YERU, ES, DOT>>, <<EM, EL, EN>>, <<EM, EL, ER, DE>> >>

StartsWith(t, prefix) == Len(t) >= Len(prefix) /\ SubSeq(t, 1, Len(prefix)) = prefix

\* The alternative of a group that matches at the start of t: the first of
\* the list that is a prefix of t, or <<>>.
RECURSIVE FirstAlternative(_, _)
FirstAlternative(t, alternatives) ==
    IF alternatives = <<>> THEN <<>>
    ELSE IF StartsWith(t, Head(alternatives)) THEN Head(alternatives)
         ELSE FirstAlternative(t, Tail(alternatives))

\* re.sub(r"(\d)\s+(кг|г|...)", "\1{NBSP}\2", t, flagre.IGNORECASE); the
\* model has the small letters only.
RECURSIVE NbspUnits(_)
NbspUnits(t) ==
    IF t = <<>> THEN <<>>
    ELSE LET rest == DropWhile(Tail(t), Whitespace)
             unit == FirstAlternative(rest, Units)
         IN IF Head(t) \in Digits /\ Len(rest) < Len(t) - 1 /\ unit # <<>>
            THEN <<Head(t), NBSP>> \o unit \o NbspUnits(SliceFrom(rest, Len(unit)))
            ELSE <<Head(t)>> \o NbspUnits(Tail(t))

\* re.sub(r"№\s*(\d)", "№{NBSP}\1", t)
RECURSIVE NbspNumero(_)
NbspNumero(t) ==
    IF t = <<>> THEN <<>>
    ELSE LET rest == DropWhile(Tail(t), Whitespace)
         IN IF Head(t) = NUMERO /\ rest # <<>> /\ Head(rest) \in Digits
            THEN <<NUMERO, NBSP, Head(rest)>> \o NbspNumero(Tail(rest))
            ELSE <<Head(t)>> \o NbspNumero(Tail(t))

\* ст|п|г, in the order of the pattern.
References == << <<ES, TE>>, <<PE>>, <<GHE>> >>

\* The position of the digits of the match of \b(ст|п|г)\.\s*(\d+) that
\* starts at p with the alternative abbr, or 0 when it does not match.
ReferenceDigits(t, p, abbr) ==
    LET dot == p + Len(abbr)
    IN IF StartsWith(SliceFrom(t, p), abbr) /\ dot < Len(t) /\ t[dot + 1] = DOT
       THEN LET digits == dot + 1 + RunLength(t, dot + 1, Whitespace)
            IN IF RunLength(t, digits, Digits) >= 1 THEN digits ELSE 0
       ELSE 0

\* The group takes its first alternative that lets the rest match.
RECURSIVE ReferenceMatch(_, _, _)
ReferenceMatch(t, p, alternatives) ==
    IF alternatives = <<>> THEN [digits |-> 0, abbr |-> <<>>]
    ELSE LET digits == ReferenceDigits(t, p, Head(alternatives))
         IN IF digits > 0 THEN [digits |-> digits, abbr |-> Head(alternatives)]
            ELSE ReferenceMatch(t, p, Tail(alternatives))

\* \b at p when the character at p is a word character.
WordStartsAt(t, p) ==
    p < Len(t) /\ t[p + 1] \in WordChars /\ (p = 0 \/ t[p] \notin WordChars)

\* re.sub(r"\b(ст|п|г)\.\s*(\d+)", "\1.{NBSP}\2", t, flagre.IGNORECASE)
\* from position p on; the model has the small letters only.
RECURSIVE NbspReferences(_, _)
NbspReferences(t, p) ==
    IF p >= Len(t) THEN <<>>
    ELSE LET m == IF WordStartsAt(t, p) THEN ReferenceMatch(t, p, References)
                  ELSE [digits |-> 0, abbr |-> <<>>]
             end == m.digits + RunLength(t, m.digits, Digits)
         IN IF m.digits > 0
            THEN m.abbr \o <<DOT, NBSP>> \o Slice(t, m.digits, end) \o NbspReferences(t, end)
            ELSE <<t[p + 1]>> \o NbspReferences(t, p + 1)

apply_typography_collapse_nbsp(txt) ==
    CollapseSpaces(ReplaceNbsp(
        NbspReferences(NbspNumero(NbspUnits(NbspPercent(Ellipses(txt)))), 0)))

apply_typography(txt) ==
    CollapseSpaces(NbspReferences(NbspNumero(NbspUnits(NbspPercent(Ellipses(txt)))), 0))

(***************************************************************************)
(* The providers (providers/mock.py, providers/languagetool.py).           *)
(***************************************************************************)
\* MockProvider(edits)
MockProvider(es) == [kind |-> "mock", edits |-> es]

\* LanguageToolProvider(): fails tells whether _get_languagetool() or
\* lt.check raises (the server cannot be reached), matches is what lt.check
\* returns otherwise.
LanguageToolProvider(fails, matches) ==
    [kind |-> "languagetool", fails |-> fails, matches |-> matches]

\* A match of LanguageTool: replacements is the list of suggested texts.
Match(offset, errorLength, replacements, message, ruleId) ==
    [offset |-> offset, errorLength |-> errorLength, replacements |-> replacements,
     message |-> message, ruleId |-> ruleId]

\* The loop of LanguageToolProvider.check over matches.matches: a match
\* without replacements is skipped.
RECURSIVE EditsOfMatches(_, _)
EditsOfMatches(t, matches) ==
    IF matches = <<>> THEN <<>>
    ELSE LET m == Head(matches)
         IN (IF m.replacements = <<>> THEN <<>>
             ELSE <<TextEdit(m.offset, m.errorLength,
                             Slice(t, m.offset, m.offset + m.errorLength),
                             m.replacements[1], m.message, m.ruleId)>>)
            \o EditsOfMatches(t, Tail(matches))

\* provider.check(t): MockProvider.check returns a copy of its edits,
\* LanguageToolProvider.check raises or returns the edits of the matches.
check(p, t) ==
    IF p.kind = "mock" THEN [raised |-> FALSE, edits |-> p.edits]
    ELSE IF p.fails THEN [raised |-> TRUE, edits |-> <<>>]
    ELSE [raised |-> FALSE, edits |-> EditsOfMatches(t, p.matches)]

(***************************************************************************)
(* CorrectionEngine.correct (core/engine.py).                              *)
(***************************************************************************)
Modes == {"base", "legal", "strict"}

\* What a call of correct does: it returns (text, edits), or the exception
\* of provider.check leaves it.
Returned(t, es) == [status |-> "returned", text |-> t, edits |-> es]
Raised(error) == [status |-> "raised", error |-> error]

\* The mode for which correct calls the provider.
CallsProvider(m) == m \in {"base", "legal", "strict"}

correct_legal_rules_in_every_mode(txt, m, p) ==
    LET normalized == normalize(txt)
        checked == IF CallsProvider(m) THEN check(p, normalized)
                   ELSE [raised |-> FALSE, edits |-> <<>>]
        legal == apply_legal_rules(apply_edits(normalized, checked.edits))
        text_after_strict == IF m = "strict" THEN apply_strict_rules(legal.t) ELSE legal.t
    IN IF checked.raised THEN Raised("provider")
       ELSE Returned(apply_typography(text_after_strict),
                     deduplicate_edits(checked.edits \o legal.edits))

correct(txt, m, p) ==
    LET normalized == normalize(txt)
        checked == IF CallsProvider(m) THEN check(p, normalized)
                   ELSE [raised |-> FALSE, edits |-> <<>>]
        provider_edits == checked.edits
        text_after_provider == apply_edits(normalized, provider_edits)
        legal == IF m \in {"legal", "strict"} THEN apply_legal_rules(text_after_provider)
                 ELSE [t |-> text_after_provider, edits |-> <<>>]
        all_edits == provider_edits \o legal.edits
        text_after_strict == IF m = "strict" THEN apply_strict_rules(legal.t) ELSE legal.t
        final_text == apply_typography(text_after_strict)
        final_edits == deduplicate_edits(all_edits)
    IN IF checked.raised THEN Raised("provider")
       ELSE Returned(final_text, final_edits)

(***************************************************************************)
(* Specification of the calls on edit lists: the caller holds a list of    *)
(* edits and calls conflicts_with on its first two edits, or               *)
(* deduplicate_edits on the list.                                          *)
(***************************************************************************)
\* Edits as a provider or a rule may build them; original and replacement
\* are short texts.
Ranges == { r \in (0..MaxPos) \X (0..MaxPos) : r[1] + r[2] <= MaxPos }

RangeEdits ==
    { TextEdit(r[1], r[2], <<>>, <<"x">>, t[1], t[2]) : r \in Ranges, t \in Tags }

\* The engine takes no part in the calls of this specification.
NoEngine ==
    /\ mode = ""
    /\ provider = MockProvider(<<>>)
    /\ check_calls = <<>>
    /\ apply_calls = <<>>

\* No LanguageTool client has been asked for.
NoClient ==
    /\ lt_instance = "None"
    /\ lt_failed = FALSE
    /\ constructions = 0

\* No front end runs: no request, no file, no process.
\* No handler holds the thread of the event loop.
Idle == 0

NoServer ==
    /\ tasks = <<>>
    /\ loop = Idle
    /\ files = <<>>
    /\ instances = <<>>

\* The services (diff view, legacy pipeline) take no part in the calls of a
\* specification.
NoService ==
    /\ corrected = <<>>
    /\ module = ""
    /\ openai = [available |-> FALSE]
    /\ lt_server = [constructs |-> TRUE]
    /\ calls = <<>>
    /\ NoServer
    /\ NoClient

EditLists == UNION { [1..n -> RangeEdits] : n \in 0..MaxEdits }

EditsInit ==
    /\ pc = "start"
    /\ text = <<>>
    /\ edits \in EditLists
    /\ result = <<>>
    /\ NoEngine
    /\ NoService

ConflictsWith ==
    /\ pc = "start"
    /\ Len(edits) = 2
    /\ pc' = "conflicts_with"
    /\ result' = conflicts_with(edits[1], edits[2])
    /\ UNCHANGED <<text, edits, engineVars, serviceVars>>

DeduplicateEdits ==
    /\ pc = "start"
    /\ pc' = "deduplicate_edits"
    /\ result' = deduplicate_edits(edits)
    /\ UNCHANGED <<text, edits, engineVars, serviceVars>>

EditsNext == ConflictsWith \/ DeduplicateEdits

SpecEdits == EditsInit /\ [][EditsNext]_vars

(***************************************************************************)
(* Properties of the edit model and of deduplicate_edits.                  *)
(***************************************************************************)
\* The positions of the half-open range [offset, offset+length) of an edit.
RangeOf(e) == { p \in 0..MaxPos : e.offset <= p /\ p < e.offset + e.length }

\* The two ranges have a position in common.
RangesOverlap(a, b) == RangeOf(a) \cap RangeOf(b) # {}

\* A zero-length edit (an insertion) whose point lies strictly inside the
\* range of the other edit.
InsertionInside(a, b) ==
    a.length = 0 /\ b.offset < a.offset /\ a.offset < b.offset + b.length

SameFourTuple(a, b) ==
    /\ a.offset = b.offset
    /\ a.length = b.length
    /\ a.original = b.original
    /\ a.replacement = b.replacement

\* C1: of two edits with different offsets whose ranges overlap,
\* deduplicate_edits returns exactly the one with the lower offset, in
\* whichever order the two are passed.
C1_LowerOffsetWins ==
    (/\ pc = "deduplicate_edits"
     /\ Len(edits) = 2
     /\ edits[1].offset # edits[2].offset
     /\ RangesOverlap(edits[1], edits[2]))
    => LET lower == IF edits[1].offset < edits[2].offset THEN edits[1] ELSE edits[2]
       IN result = <<lower>>

\* The two orders of an overlapping pair are both passed to deduplicate_edits.
C1_Witness ==
    /\ pc = "deduplicate_edits"
    /\ Len(edits) = 2
    /\ edits[1].offset > edits[2].offset
    /\ RangesOverlap(edits[1], edits[2])
    /\ Len(result) = 1

\* C2: the list deduplicate_edits returns holds no two edits that conflict
\* with each other, and every edit of it comes from the input.
C2_NoConflictKept ==
    pc = "deduplicate_edits"
    => /\ \A i, j \in 1..Len(result) : i # j => ~ conflicts_with(result[i], result[j])
       /\ \A i \in 1..Len(result) : \E k \in 1..Len(edits) : edits[k] = result[i]

\* A list of three edits with a conflict among them has been deduplicated
\* to two edits.
C2_Witness ==
    /\ pc = "deduplicate_edits"
    /\ Len(edits) = 3
    /\ \E i, j \in 1..3 : i # j /\ conflicts_with(edits[i], edits[j])
    /\ Len(result) = 2

\* C3 as stated: conflicts_with is true exactly when the half-open ranges of
\* the two edits have a position in common.
C3_ConflictIffOverlap ==
    pc = "conflicts_with" => (result <=> RangesOverlap(edits[1], edits[2]))

\* C3 as the code has it: conflicts_with is true exactly when the ranges have
\* a position in common or one edit is an insertion strictly inside the
\* range of the other; ranges that only touch do not conflict.
C3_ConflictIffOverlapOrInsertionInside ==
    pc = "conflicts_with"
    => (result <=> \/ RangesOverlap(edits[1], edits[2])
                   \/ InsertionInside(edits[1], edits[2])
                   \/ InsertionInside(edits[2], edits[1]))

\* conflicts_with has been called on an insertion inside another edit's range
\* and has returned true.
C3_Witness ==
    /\ pc = "conflicts_with"
    /\ InsertionInside(edits[1], edits[2])
    /\ result = TRUE

\* C4: two edits with the same (offset, length, original, replacement)
\* compare equal whatever their message and rule_id, and deduplicate_edits
\* on the two returns one edit.
C4_FourTupleDuplicates ==
    (/\ pc = "deduplicate_edits"
     /\ Len(edits) = 2
     /\ SameFourTuple(edits[1], edits[2]))
    => /\ TextEditEq(edits[1], edits[2])
       /\ Len(result) = 1

(***************************************************************************)
(* Specification of the calls of apply_edits: the caller holds a text and  *)
(* a list of edits that lie inside it, and applies the list.               *)
(***************************************************************************)
Letters == {"a", "b"}

TextsOver(alphabet, n) == UNION { [1..k -> alphabet] : k \in 0..n }

Replacements == {<<>>, <<"x">>, <<"y", "z">>}

\* The edits that lie inside t and are valid against it.
EditsInside(t) ==
    { TextEdit(r[1], r[2], Slice(t, r[1], r[1] + r[2]), rep, "", "") :
        r \in { q \in Ranges : q[1] + q[2] <= Len(t) }, rep \in Replacements }

ApplyInit ==
    /\ pc = "start"
    /\ text \in TextsOver(Letters, MaxPos)
    /\ edits \in UNION { [1..n -> EditsInside(text)] : n \in 0..MaxApplied }
    /\ result = <<>>
    /\ NoEngine
    /\ NoService

ApplyEdits ==
    /\ pc = "start"
    /\ pc' = "apply_edits"
    /\ result' = apply_edits(text, edits)
    /\ UNCHANGED <<text, edits, engineVars, serviceVars>>

ApplyNext == ApplyEdits

SpecApply == ApplyInit /\ [][ApplyNext]_vars

PairwiseNonConflicting(es) ==
    \A i, j \in 1..Len(es) : i # j => ~ conflicts_with(es[i], es[j])

\* The orderings of a list.
Orderings(es) ==
    { [i \in 1..Len(es) |-> es[f[i]]] :
        f \in { g \in [1..Len(es) -> 1..Len(es)] : \A i, j \in 1..Len(es) : g[i] = g[j] => i = j } }

\* The replacements of a list of edits, concatenated in order.
RECURSIVE ReplacementsOf(_)
ReplacementsOf(es) ==
    IF es = <<>> THEN <<>> ELSE Head(es).replacement \o ReplacementsOf(Tail(es))

\* The text t from position p on in which the range of every edit of es is
\* replaced by the replacement of the edit and the rest is kept: at p first
\* the insertions at p (in list order), then the edit that replaces from p on,
\* or the character at p.
RECURSIVE ReplacedFrom(_, _, _)
ReplacedFrom(t, es, p) ==
    LET inserted == ReplacementsOf(SelectSeq(es, LAMBDA e : e.offset = p /\ e.length = 0))
        starting == SelectSeq(es, LAMBDA e : e.offset = p /\ e.length > 0)
    IN IF p >= Len(t) THEN inserted
       ELSE IF starting # <<>>
            THEN inserted \o Head(starting).replacement
                     \o ReplacedFrom(t, es, p + Head(starting).length)
            ELSE inserted \o <<t[p + 1]>> \o ReplacedFrom(t, es, p + 1)

\* C10: for pairwise non-conflicting edits inside the text, apply_edits
\* returns the text with the range of every edit replaced by its replacement
\* and the rest unchanged, and every ordering of the list gives that result.
C10_AppliesEveryEdit ==
    (pc = "apply_edits" /\ PairwiseNonConflicting(edits))
    => /\ \E o \in Orderings(edits) : result = ReplacedFrom(text, o, 0)
       /\ \A o \in Orderings(edits) : apply_edits(text, o) = result

(***************************************************************************)
(* Specification of the calls of normalize: the caller normalizes a text   *)
(* and then normalizes what it got.                                        *)
(***************************************************************************)
NormalizeAlphabet == {SP, TAB, NBSP, NL, CR, "a"}

NormalizeInit ==
    /\ pc = "start"
    /\ text \in TextsOver(NormalizeAlphabet, MaxNormLen)
    /\ edits = <<>>
    /\ result = <<>>
    /\ NoEngine
    /\ NoService

Normalize ==
    /\ pc = "start"
    /\ pc' = "normalize"
    /\ result' = normalize(text)
    /\ UNCHANGED <<text, edits, engineVars, serviceVars>>

\* The result of the first call is the argument of the second; the caller
\* keeps both results.
NormalizeAgain ==
    /\ pc = "normalize"
    /\ pc' = "normalize_again"
    /\ result' = [first |-> result, second |-> normalize(result)]
    /\ UNCHANGED <<text, edits, engineVars, serviceVars>>

NormalizeNext == Normalize \/ NormalizeAgain

SpecNormalize == NormalizeInit /\ [][NormalizeNext]_vars

\* C9: normalize is idempotent: normalizing a normalized text returns it
\* unchanged, normalize(normalize(t)) = normalize(t).
C9_NormalizeIdempotent ==
    pc = "normalize_again" => result.second = result.first

\* A text in which the first call collapsed blanks, trimmed around a newline
\* and stripped the ends has been normalized twice.
C9_Witness ==
    /\ pc = "normalize_again"
    /\ text = <<TAB, "a", NBSP, NL, "a">>
    /\ result.first = <<"a", NL, "a">>
    /\ result.second = result.first

(***************************************************************************)
(* Specification of the calls of CorrectionEngine.correct: an engine is    *)
(* built with a provider and correct is called with a text and a mode.     *)
(***************************************************************************)
\* config.MAX_TEXT_LEN, scaled to the texts of the model.
MAX_TEXT_LEN == 3

CorrectAlphabet == {SP, NL, "a", QUOTE, HYPHEN, DOT}

\* The modes a caller passes: the three of Mode and a malformed one (the
\* bot passes config.DEFAULT_MODE, any string of the environment).
RequestedModes == Modes \cup {"fast"}

ProviderEdits ==
    { TextEdit(0, 1, <<"a">>, <<"b">>, "Spelling", "MORFOLOGIK_RULE_RU_RU"),
      TextEdit(0, 2, <<"a", "a">>, <<"x">>, "", "") }

ProviderMatches ==
    { Match(0, 1, << <<"b">> >>, "Spelling", "MORFOLOGIK_RULE_RU_RU"),
      Match(1, 1, <<>>, "Style", "STYLE"),
      Match(0, 1, << <<>>, <<"b">> >>, "Redundant", "REDUNDANCY") }

Providers ==
    { MockProvider(es) : es \in UNION { [1..n -> ProviderEdits] : n \in 0..MaxProviderEdits } }
    \cup { LanguageToolProvider(TRUE, <<>>) }
    \cup { LanguageToolProvider(FALSE, ms) : ms \in UNION { [1..n -> ProviderMatches] : n \in 0..1 } }

CorrectInit ==
    /\ pc = "start"
    /\ text \in TextsOver(CorrectAlphabet, MaxCorrectLen)
    /\ mode \in RequestedModes
    /\ provider \in Providers
    /\ edits = <<>>
    /\ result = <<>>
    /\ check_calls = <<>>
    /\ apply_calls = <<>>
    /\ NoService

\* What the call of correct leaves in check_calls and apply_calls: the
\* provider is called for the three modes, apply_edits is called with the
\* list the provider returned unless provider.check raised.
CallsOfCorrect ==
    LET normalized == normalize(text)
        checked == IF CallsProvider(mode) THEN check(provider, normalized)
                   ELSE [raised |-> FALSE, edits |-> <<>>]
    IN /\ check_calls' = IF CallsProvider(mode) THEN Append(check_calls, normalized)
                         ELSE check_calls
       /\ apply_calls' = IF checked.raised THEN apply_calls
                         ELSE Append(apply_calls, checked.edits)

\* The provider after a call of correct: MockProvider.check hands out a copy
\* of self.edits and correct extends a copy of the list it got, so that the
\* provider is what it was.
provider_after_correct_shared_list(txt, m, p) ==
    IF p.kind = "mock" /\ m \in {"legal", "strict"}
    THEN MockProvider(p.edits \o apply_legal_rules(apply_edits(normalize(txt), p.edits)).edits)
    ELSE p

provider_after_correct(txt, m, p) == p

\* engine.correct(text, mode)
Correct ==
    /\ pc = "start"
    /\ pc' = "correct"
    /\ result' = correct(text, mode, provider)
    /\ CallsOfCorrect
    /\ provider' = provider_after_correct(text, mode, provider)
    /\ UNCHANGED <<text, edits, mode, serviceVars>>

\* The same call once more, on the same engine: result keeps what both
\* calls returned.
CorrectAgain ==
    /\ pc = "correct"
    /\ pc' = "correct_again"
    /\ result' = [first |-> result, second |-> correct(text, mode, provider)]
    /\ CallsOfCorrect
    /\ provider' = provider_after_correct(text, mode, provider)
    /\ UNCHANGED <<text, edits, mode, serviceVars>>

CorrectNext == Correct \/ CorrectAgain

SpecCorrect == CorrectInit /\ [][CorrectNext]_vars

\* C5: when provider.check raises, correct returns a normal result, the one
\* it returns with a provider that returns no edits.
C5_SoftProviderFailure ==
    (pc = "correct" /\ provider.kind = "languagetool" /\ provider.fails)
    => /\ result.status = "returned"
       /\ result = correct(text, mode, MockProvider(<<>>))

\* C6: for an empty or whitespace-only text correct returns the empty text
\* and no edits and does not call provider.check, whatever the mode and the
\* provider.
C6_EmptyInputShortCircuits ==
    (pc = "correct" /\ Strip(text) = <<>>)
    => /\ result = Returned(<<>>, <<>>)
       /\ check_calls = <<>>

\* C7: correct never returns a corrected result for a text longer than
\* MAX_TEXT_LEN: the call fails with the length error.
C7_LengthLimit ==
    (pc = "correct" /\ Len(text) > MAX_TEXT_LEN) => result = Raised("text too long")

\* C8: correct called with a mode that is not base, legal or strict fails
\* with an error and returns no (text, edits).
C8_MalformedModeFails ==
    (pc = "correct" /\ mode \notin Modes) => result.status = "raised"

\* Two edits of the list, at different places of it, have ranges that
\* overlap.
HasOverlap(es) ==
    \E i, j \in 1..Len(es) : i # j /\ RangesOverlap(es[i], es[j])

C15_SameResult ==
    (pc = "correct_again" /\ provider.kind = "mock") => result.first = result.second

WithReplacements(matches) == SelectSeq(matches, LAMBDA m : m.replacements # <<>>)

\* C19: every edit that LanguageToolProvider.check returns (the list
\* correct hands to apply_edits) has a replacement that is not empty, and a
\* match without a suggested replacement gives no edit.
C19_NonEmptyReplacements ==
    (provider.kind = "languagetool" /\ ~ provider.fails)
    => \A k \in 1..Len(apply_calls) :
          /\ \A i \in 1..Len(apply_calls[k]) : apply_calls[k][i].replacement # <<>>
          /\ Len(apply_calls[k]) = Len(WithReplacements(provider.matches))

\* C13: correct never calls apply_edits with a list that holds two edits
\* whose ranges overlap, whatever list the provider returns.
C13_AppliesNoOverlap ==
    \A k \in 1..Len(apply_calls) : ~ HasOverlap(apply_calls[k])

(***************************************************************************)
(* Specification of correct on its own output: an engine whose provider    *)
(* returns no edits corrects a text and then, in the same mode, the text   *)
(* it returned.                                                            *)
(***************************************************************************)
MaxPipelineLen == 5

PipelineAlphabet == {SP, NL, "a", "1", QUOTE, PERCENT, DOT}

PipelineInit ==
    /\ pc = "start"
    /\ text \in TextsOver(PipelineAlphabet, MaxPipelineLen)
    /\ mode \in Modes
    /\ provider = MockProvider(<<>>)
    /\ edits = <<>>
    /\ result = <<>>
    /\ check_calls = <<>>
    /\ apply_calls = <<>>
    /\ NoService

\* engine.correct(engine.correct(text, mode)[0], mode): result keeps what
\* both calls returned.
CorrectOutput ==
    /\ pc = "correct"
    /\ result.status = "returned"
    /\ pc' = "correct_output"
    /\ \E second \in {correct(result.text, mode, provider)} :
          /\ result' = [first |-> result, second |-> second]
          /\ check_calls' = Append(check_calls, normalize(result.text))
          /\ apply_calls' = Append(apply_calls, check(provider, normalize(result.text)).edits)
    /\ provider' = provider_after_correct(result.text, mode, provider)
    /\ UNCHANGED <<text, edits, mode, serviceVars>>

PipelineNext == Correct \/ CorrectOutput

SpecPipeline == PipelineInit /\ [][PipelineNext]_vars

\* t has three newlines in a row.
HasNewlineRun(t) == \E k \in 1..(Len(t) - 2) : t[k] = NL /\ t[k + 1] = NL /\ t[k + 2] = NL

\* C25: in strict mode, with a provider that returns no edits, the text
\* correct returns has no run of three or more newlines: the typography
\* pass that follows the strict rules does not bring one back.
C25_NoNewlineRunInStrict ==
    (pc = "correct" /\ mode = "strict") => ~ HasNewlineRun(result.text)

\* A text with three newlines between two letters was corrected in strict
\* mode.
C25_Witness ==
    /\ pc = "correct"
    /\ mode = "strict"
    /\ text = <<"a", NL, NL, NL, "a">>
    /\ result.text = <<"a", NL, NL, "a">>

MaxLegalLen == 5

LegalAlphabet == {SP, "a", QUOTE, HYPHEN, DOT}

LegalInit ==
    /\ pc = "start"
    /\ text \in TextsOver(LegalAlphabet, MaxLegalLen)
    /\ edits = <<>>
    /\ result = <<>>
    /\ NoEngine
    /\ NoService

\* engine.apply_legal_rules(text)
ApplyLegalRules ==
    /\ pc = "start"
    /\ pc' = "apply_legal_rules"
    /\ result' = apply_legal_rules(text)
    /\ UNCHANGED <<text, edits, engineVars, serviceVars>>

LegalNext == ApplyLegalRules

SpecLegal == LegalInit /\ [][LegalNext]_vars

\* An edit is valid against a text: text[offset:offset+length] == original.
ValidAgainst(e, t) == Slice(t, e.offset, e.offset + e.length) = e.original

\* C11: every edit that apply_legal_rules returns is valid against the text
\* passed to the function, also when the text has several matches.
C11_EditsValidAgainstInput ==
    pc = "apply_legal_rules"
    => \A i \in 1..Len(result.edits) : ValidAgainst(result.edits[i], text)

\* C12: whenever apply_legal_rules returns a text that differs from its
\* input, the list of edits it returns is not empty.
C12_ChangeIsReported ==
    (pc = "apply_legal_rules" /\ result.t # text) => result.edits # <<>>

\* t has two plain spaces in a row.
HasSpaceRun(t) == \E k \in 1..(Len(t) - 1) : t[k] = SP /\ t[k + 1] = SP

\* t has a plain space right before one of the marks . , ; : ! ?
HasSpaceBeforeMark(t) == \E k \in 1..(Len(t) - 1) : t[k] = SP /\ t[k + 1] \in Punctuation

\* C24: the text returned by apply_legal_rules has no run of two or more
\* plain spaces and no plain space right before one of the marks
\* . , ; : ! ?
C24_SpacesTightened ==
    pc = "apply_legal_rules" => ~ HasSpaceRun(result.t) /\ ~ HasSpaceBeforeMark(result.t)

\* A text with a run of spaces and a space before a period went through the
\* rules.
C24_Witness ==
    /\ pc = "apply_legal_rules"
    /\ text = <<SP, SP, "a", SP, DOT>>
    /\ result.t = <<SP, "a", DOT>>

(***************************************************************************)
(* make_diff (services/diff_view.py): the opcodes of                       *)
(* difflib.SequenceMatcher(a=src, b=dst), rendered as HTML.  No element is *)
(* junk: the texts are shorter than the 200 characters from which          *)
(* SequenceMatcher starts to set popular elements aside.                   *)
(***************************************************************************)
AMP == "&"
LESS == "<"
GREATER == ">"
APOS == "'"

\* html.escape(s) with quote=True, character by character.
EscapeChar(c) ==
    CASE c = AMP -> <<"&", "a", "m", "p", ";">>
      [] c = LESS -> <<"&", "l", "t", ";">>
      [] c = GREATER -> <<"&", "g", "t", ";">>
      [] c = QUOTE -> <<"&", "q", "u", "o", "t", ";">>
      [] c = APOS -> <<"&", "#", "x", "2", "7", ";">>
      [] OTHER -> <<c>>

RECURSIVE escape(_)
escape(s) == IF s = <<>> THEN <<>> ELSE EscapeChar(Head(s)) \o escape(Tail(s))

\* The length of the run a[i:] and b[j:] have in common inside a[:ahi] and
\* b[:bhi].
RECURSIVE CommonRun(_, _, _, _, _, _)
CommonRun(a, b, i, j, ahi, bhi) ==
    IF i < ahi /\ j < bhi /\ a[i + 1] = b[j + 1]
    THEN 1 + CommonRun(a, b, i + 1, j + 1, ahi, bhi)
    ELSE 0

\* SequenceMatcher.find_longest_match(alo, ahi, blo, bhi): the longest
\* block a[i:i+size] == b[j:j+size] of the two ranges; of the longest
\* blocks the one that starts earliest in a, and of those the one that
\* starts earliest in b.
find_longest_match(a, b, alo, ahi, blo, bhi) ==
    LET blocks == { [i |-> i, j |-> j, size |-> CommonRun(a, b, i, j, ahi, bhi)] :
                        i \in alo..(ahi - 1), j \in blo..(bhi - 1) }
        matching == { m \in blocks : m.size > 0 }
        First(m, n) ==
            \/ m.size > n.size
            \/ m.size = n.size /\ m.i < n.i
            \/ m.size = n.size /\ m.i = n.i /\ m.j <= n.j
    IN IF matching = {} THEN [i |-> alo, j |-> blo, size |-> 0]
       ELSE CHOOSE m \in matching : \A n \in matching : First(m, n)

\* The blocks get_matching_blocks finds, sorted: the longest match of the
\* ranges, and the same to the left and to the right of it.
RECURSIVE MatchingBlocks(_, _, _, _, _, _)
MatchingBlocks(a, b, alo, ahi, blo, bhi) ==
    LET m == find_longest_match(a, b, alo, ahi, blo, bhi)
    IN IF m.size = 0 THEN <<>>
       ELSE (IF alo < m.i /\ blo < m.j
             THEN MatchingBlocks(a, b, alo, m.i, blo, m.j) ELSE <<>>)
            \o <<m>>
            \o (IF m.i + m.size < ahi /\ m.j + m.size < bhi
                THEN MatchingBlocks(a, b, m.i + m.size, ahi, m.j + m.size, bhi) ELSE <<>>)

\* The loop of get_matching_blocks that collapses adjacent blocks; cur is
\* (i1, j1, k1).
RECURSIVE NonAdjacent(_, _)
NonAdjacent(blocks, cur) ==
    IF blocks = <<>> THEN (IF cur.size > 0 THEN <<cur>> ELSE <<>>)
    ELSE LET next == Head(blocks)
         IN IF cur.i + cur.size = next.i /\ cur.j + cur.size = next.j
            THEN NonAdjacent(Tail(blocks), [cur EXCEPT !.size = cur.size + next.size])
            ELSE (IF cur.size > 0 THEN <<cur>> ELSE <<>>) \o NonAdjacent(Tail(blocks), next)

\* SequenceMatcher.get_matching_blocks(): the last block is the sentinel
\* (len(a), len(b), 0).
get_matching_blocks(a, b) ==
    NonAdjacent(MatchingBlocks(a, b, 0, Len(a), 0, Len(b)), [i |-> 0, j |-> 0, size |-> 0])
        \o <<[i |-> Len(a), j |-> Len(b), size |-> 0]>>

Opcode(tag, i1, i2, j1, j2) == [tag |-> tag, i1 |-> i1, i2 |-> i2, j1 |-> j1, j2 |-> j2]

\* The loop of SequenceMatcher.get_opcodes() over the matching blocks.
RECURSIVE OpcodesFrom(_, _, _)
OpcodesFrom(blocks, i, j) ==
    IF blocks = <<>> THEN <<>>
    ELSE LET m == Head(blocks)
             tag == IF i < m.i /\ j < m.j THEN "replace"
                    ELSE IF i < m.i THEN "delete"
                    ELSE IF j < m.j THEN "insert"
                    ELSE ""
         IN (IF tag # "" THEN <<Opcode(tag, i, m.i, j, m.j)>> ELSE <<>>)
            \o (IF m.size > 0
                THEN <<Opcode("equal", m.i, m.i + m.size, m.j, m.j + m.size)>> ELSE <<>>)
            \o OpcodesFrom(Tail(blocks), m.i + m.size, m.j + m.size)

get_opcodes(a, b) == OpcodesFrom(get_matching_blocks(a, b), 0, 0)

MarkInsert == "<mark style='background:#e6ffed'>"
MarkDelete == "<mark style='background:#ffeef0;text-decoration:line-through'>"
MarkEnd == "</mark>"

Inserted(s) == <<MarkInsert>> \o escape(s) \o <<MarkEnd>>
Deleted(s) == <<MarkDelete>> \o escape(s) \o <<MarkEnd>>

\* A replace rendered as an insertion only.
Parts_replace_as_insert(op, src, dst) ==
    IF op.tag = "equal" THEN escape(Slice(dst, op.j1, op.j2))
    ELSE IF op.tag = "delete" THEN Deleted(Slice(src, op.i1, op.i2))
    ELSE Inserted(Slice(dst, op.j1, op.j2))

\* What the body of the loop of make_diff appends to parts for an opcode.
Parts(op, src, dst) ==
    CASE op.tag = "equal" -> escape(Slice(dst, op.j1, op.j2))
      [] op.tag = "insert" -> Inserted(Slice(dst, op.j1, op.j2))
      [] op.tag = "delete" -> Deleted(Slice(src, op.i1, op.i2))
      [] op.tag = "replace" ->
            Deleted(Slice(src, op.i1, op.i2)) \o Inserted(Slice(dst, op.j1, op.j2))

RECURSIVE JoinParts(_, _, _)
JoinParts(opcodes, src, dst) ==
    IF opcodes = <<>> THEN <<>>
    ELSE Parts(Head(opcodes), src, dst) \o JoinParts(Tail(opcodes), src, dst)

\* make_diff(src, dst): the HTML, a sequence of characters and of the three
\* mark tags.
make_diff(src, dst) == JoinParts(get_opcodes(src, dst), src, dst)

(***************************************************************************)
(* Specification of the calls of make_diff on an original and a corrected  *)
(* text.                                                                   *)
(***************************************************************************)
MaxDiffLen == 3

DiffAlphabet == {"a", "b", LESS, AMP}

DiffInit ==
    /\ pc = "start"
    /\ text \in TextsOver(DiffAlphabet, MaxDiffLen)
    /\ corrected \in TextsOver(DiffAlphabet, MaxDiffLen)
    /\ edits = <<>>
    /\ result = <<>>
    /\ NoEngine
    /\ NoClient
    /\ module = ""
    /\ openai = [available |-> FALSE]
    /\ lt_server = [constructs |-> TRUE]
    /\ calls = <<>>
    /\ NoServer

\* make_diff(text, corrected)
MakeDiff ==
    /\ pc = "start"
    /\ pc' = "make_diff"
    /\ result' = make_diff(text, corrected)
    /\ UNCHANGED <<text, edits, engineVars, serviceVars>>

DiffNext == MakeDiff

SpecDiff == DiffInit /\ [][DiffNext]_vars

\* html.unescape of the entities html.escape writes.
Entities ==
    << [entity |-> <<"&", "a", "m", "p", ";">>, char |-> AMP],
       [entity |-> <<"&", "l", "t", ";">>, char |-> LESS],
       [entity |-> <<"&", "g", "t", ";">>, char |-> GREATER],
       [entity |-> <<"&", "q", "u", "o", "t", ";">>, char |-> QUOTE],
       [entity |-> <<"&", "#", "x", "2", "7", ";">>, char |-> APOS] >>

RECURSIVE unescape(_)
unescape(s) ==
    IF s = <<>> THEN <<>>
    ELSE LET found == { k \in 1..Len(Entities) : StartsWith(s, Entities[k].entity) }
         IN IF found = {} THEN <<Head(s)>> \o unescape(Tail(s))
            ELSE LET k == CHOOSE n \in found : TRUE
                 IN <<Entities[k].char>> \o unescape(SliceFrom(s, Len(Entities[k].entity)))

\* The spans of an HTML of make_diff, in order: the text of a mark is a
\* span of its kind, the text between marks is an equal span.
RECURSIVE Spans(_)
Spans(html) ==
    IF html = <<>> THEN <<>>
    ELSE IF Head(html) \in {MarkInsert, MarkDelete}
    THEN LET n == RunLength(html, 1, CharsOf(html) \ {MarkEnd})
         IN <<[tag |-> IF Head(html) = MarkInsert THEN "insert" ELSE "delete",
               text |-> unescape(Slice(html, 1, 1 + n))]>>
            \o Spans(SliceFrom(html, n + 2))
    ELSE LET n == RunLength(html, 0, CharsOf(html) \ {MarkInsert, MarkDelete})
         IN <<[tag |-> "equal", text |-> unescape(Slice(html, 0, n))]>>
            \o Spans(SliceFrom(html, n))

\* The texts of the spans of the given kinds, concatenated in order.
RECURSIVE TextOf(_, _)
TextOf(spans, tags) ==
    IF spans = <<>> THEN <<>>
    ELSE (IF Head(spans).tag \in tags THEN Head(spans).text ELSE <<>>)
         \o TextOf(Tail(spans), tags)

\* The kinds of the spans the opcodes stand for: a replace is a deletion
\* followed by an insertion.
RECURSIVE SpanTags(_)
SpanTags(opcodes) ==
    IF opcodes = <<>> THEN <<>>
    ELSE (IF Head(opcodes).tag = "replace" THEN <<"delete", "insert">>
          ELSE <<Head(opcodes).tag>>)
         \o SpanTags(Tail(opcodes))

\* C17: the equal and insertion spans of make_diff(original, final),
\* unescaped and concatenated in order, give final; the equal and deletion
\* spans give original; a replace opcode gives a deletion span immediately
\* followed by an insertion span.
C17_DiffCoverage ==
    pc = "make_diff"
    => LET spans == Spans(result)
       IN /\ TextOf(spans, {"equal", "insert"}) = corrected
          /\ TextOf(spans, {"equal", "delete"}) = text
          /\ [k \in 1..Len(spans) |-> spans[k].tag] = SpanTags(get_opcodes(text, corrected))

\* A replace between two equal runs, of characters that html.escape
\* rewrites.
C17_Witness ==
    /\ pc = "make_diff"
    /\ text = <<"a", LESS, "b">>
    /\ corrected = <<"a", AMP, "b">>
    /\ result = <<"a", MarkDelete, "&", "l", "t", ";", MarkEnd,
                  MarkInsert, "&", "a", "m", "p", ";", MarkEnd, "b">>

(***************************************************************************)
(* openai_client.py: correct_text_openai.  The text of an exception and a  *)
(* message for the user are sequences of words.                            *)
(***************************************************************************)
BACKTICK == "BACKTICK"
Fence == <<BACKTICK, BACKTICK, BACKTICK>>
FenceHtml == Fence \o <<"h", "t", "m", "l">>

EndsWith(t, suffix) ==
    Len(t) >= Len(suffix) /\ SubSeq(t, Len(t) - Len(suffix) + 1, Len(t)) = suffix

\* The cleanup of the answer in diff mode: the fences of a markdown code
\* block are cut off.
StripFences(r) ==
    LET opened == IF StartsWith(r, FenceHtml) THEN SliceFrom(r, 7) ELSE r
        bare == IF StartsWith(opened, Fence) THEN SliceFrom(opened, 3) ELSE opened
        closed == IF EndsWith(bare, Fence) THEN Slice(bare, 0, Len(bare) - 3) ELSE bare
    IN Strip(closed)

\* What a call gives: a value, or an exception with its type and str(e).
Value(v) == [raised |-> FALSE, value |-> v]
Exception(type, message) == [raised |-> TRUE, type |-> type, message |-> message]

\* What client.chat.completions.create does for a prompt: it raises an
\* exception with the text error, or the message it returns has content.
Answer(raises, error, content) == [raises |-> raises, error |-> error, content |-> content]

RateLimitMessage == <<"RATE_LIMIT_EXCEEDED_TRY_LATER">>
TimeoutMessage == <<"TIMED_OUT_TRY_LATER">>
AuthenticationMessage == <<"OPENAI_AUTHENTICATION_ERROR_CHECK_API_KEY">>
OpenAIErrorPrefix == "OPENAI_ERROR:"

\* The except branch of correct_text_openai: str(e).lower() is searched for
\* the marks of the known failures.
OpenAIError(error) ==
    LET words == CharsOf(error)
    IN IF words \cap {"rate_limit", "429"} # {} THEN Exception("RuntimeError", RateLimitMessage)
       ELSE IF "timeout" \in words THEN Exception("RuntimeError", TimeoutMessage)
       ELSE IF words \cap {"api_key", "authentication", "401"} # {}
       THEN Exception("RuntimeError", AuthenticationMessage)
       ELSE Exception("RuntimeError", <<OpenAIErrorPrefix>> \o error)

OpenAIModes == {"min", "biz", "acad", "typo", "diff"}

\* correct_text_openai(text, mode); answer is what the service does for the
\* prompt of the mode.
correct_text_openai(txt, m, answer) ==
    IF Strip(txt) = <<>> THEN Value(txt)
    ELSE IF Len(txt) > MAX_TEXT_LEN
    THEN Exception("ValueError", <<"Text too long. Maximum length:", "MAX_TEXT_LEN", "characters">>)
    ELSE IF m \notin OpenAIModes THEN Exception("ValueError", <<"Invalid mode:", m>>)
    ELSE IF answer.raises THEN OpenAIError(answer.error)
    ELSE Value(IF m = "diff" THEN StripFences(Strip(answer.content)) ELSE Strip(answer.content))

(***************************************************************************)
(* core_corrector.py, the legacy pipeline: correct_text with the OpenAI    *)
(* strategy and the local fallback.                                        *)
(***************************************************************************)
DEL_OPEN == "<del>"
DEL_CLOSE == "</del>"
INS_OPEN == "<ins>"
INS_CLOSE == "</ins>"

\* The end of the match of open.*?close at the head of t, or 0: the dot
\* matches no newline.
TagMatchEnd(t, close) ==
    LET inner == RunLength(t, 1, CharsOf(t) \ {NL, close})
    IN IF 1 + inner < Len(t) /\ t[1 + inner + 1] = close THEN 1 + inner + 1 ELSE 0

\* re.sub(r'<del>.*?</del>', '', html)
RECURSIVE RemoveDeleted(_)
RemoveDeleted(t) ==
    IF t = <<>> THEN <<>>
    ELSE LET end == IF Head(t) = DEL_OPEN THEN TagMatchEnd(t, DEL_CLOSE) ELSE 0
         IN IF end > 0 THEN RemoveDeleted(SliceFrom(t, end))
            ELSE <<Head(t)>> \o RemoveDeleted(Tail(t))

\* re.sub(r'<ins>(.*?)</ins>', r'\1', plain)
RECURSIVE UnwrapInserted(_)
UnwrapInserted(t) ==
    IF t = <<>> THEN <<>>
    ELSE LET end == IF Head(t) = INS_OPEN THEN TagMatchEnd(t, INS_CLOSE) ELSE 0
         IN IF end > 0 THEN Slice(t, 1, end - 1) \o UnwrapInserted(SliceFrom(t, end))
            ELSE <<Head(t)>> \o UnwrapInserted(Tail(t))

\* _get_languagetool(): what it returns (lt) and what it leaves in
\* _lt_instance and _lt_failed; constructed counts the call of
\* LanguageToolPublicAPI(...).
get_languagetool(instance, failed, server) ==
    IF failed THEN [lt |-> "None", instance |-> instance, failed |-> TRUE, constructed |-> 0]
    ELSE IF instance = "None"
    THEN IF server.constructs
         THEN [lt |-> "client", instance |-> "client", failed |-> FALSE, constructed |-> 1]
         ELSE [lt |-> "None", instance |-> "None", failed |-> TRUE, constructed |-> 1]
    ELSE [lt |-> instance, instance |-> instance, failed |-> FALSE, constructed |-> 0]

\* quotes_and_dashes(text): the two substitutions, of the patterns of the
\* quote and dash loops of the engine.
quotes_and_dashes(t) ==
    LET quoted == QuoteLoop(t, QuoteMatches(t, 0), t, 0, <<>>).t
    IN DashLoop(quoted, DashMatches(quoted, 0), <<>>, 0, <<>>).t

\* typograph(text) of typograph_ru.py: the substitutions of
\* apply_typography, in the same order.
typograph(t) == apply_typography(t)

\* style_refine(text, mode)
style_refine(t, m) == t

\* apply_languagetool(text): lt is what _get_languagetool() returned; the
\* corrections are spliced in from the end.
apply_languagetool(t, lt, server) ==
    IF lt = "None" THEN t
    ELSE IF server.raises THEN t
    ELSE apply_edits(t, EditsOfMatches(t, server.matches))

LocalCorrection_no_languagetool(src, m, do_typograph, lt, server) ==
    IF do_typograph THEN typograph(quotes_and_dashes(src)) ELSE quotes_and_dashes(src)

\* The local fallback of correct_text: what it returns as the corrected
\* text; lt is what _get_languagetool() returned.
LocalCorrection(src, m, do_typograph, lt, server) ==
    IF m = "typo" THEN typograph(quotes_and_dashes(src))
    ELSE LET lt_fixed == apply_languagetool(src, lt, server)
             rule_fixed == quotes_and_dashes(lt_fixed)
             final == IF do_typograph THEN typograph(rule_fixed) ELSE rule_fixed
         IN IF m \in {"biz", "acad"} THEN style_refine(final, m) ELSE final

\* The value correct_text returns: the text, or the pair (text, html).
WithDiff(make_diff_view, src, final) ==
    IF make_diff_view THEN <<final, make_diff(src, final)>> ELSE final

\* The requests a call makes: correct_text_openai(src, mode=m), lt.check(t).
OpenAIRequest(m) == <<"correct_text_openai", m>>
LanguageToolCheck(t) == <<"lt.check", t>>

\* The calls of correct_text_openai in the branch of correct_text taken
\* when _use_openai().
OpenAIRequests(src, m, make_diff_view, service) ==
    IF ~ make_diff_view THEN <<OpenAIRequest(m)>>
    ELSE IF correct_text_openai(src, "diff", service.diff_answer).raised
    THEN <<OpenAIRequest("diff"), OpenAIRequest(m)>>
    ELSE <<OpenAIRequest("diff")>>

\* The branch of correct_text taken when _use_openai(): the value returned,
\* or an exception that the outer except catches.
OpenAICorrection(src, m, make_diff_view, service) ==
    LET final == correct_text_openai(src, m, service.answer)
        html == correct_text_openai(src, "diff", service.diff_answer)
    IN IF make_diff_view /\ ~ html.raised
       THEN Value(<<UnwrapInserted(RemoveDeleted(html.value)), html.value>>)
       ELSE IF final.raised THEN final
       ELSE Value(WithDiff(make_diff_view, src, final.value))

\* correct_text that does not return early for a blank text.
correct_text_unchecked(txt, m, do_typograph, make_diff_view, service, instance, failed, server) ==
    LET src == normalize(txt)
        unchanged == [lt |-> "None", instance |-> instance, failed |-> failed, constructed |-> 0]
        generated == IF service.available
                     THEN OpenAICorrection(src, m, make_diff_view, service)
                     ELSE Exception("", <<>>)
        got == IF m = "typo" THEN unchanged
               ELSE get_languagetool(instance, failed, server)
        requests == IF service.available
                    THEN OpenAIRequests(src, m, make_diff_view, service)
                    ELSE <<>>
    IN IF ~ generated.raised
       THEN [value |-> generated.value, client |-> unchanged, calls |-> requests]
       ELSE [value |-> WithDiff(make_diff_view, src,
                                LocalCorrection(src, m, do_typograph, got.lt, server)),
             client |-> got,
             calls |-> requests \o IF got.lt = "None" THEN <<>> ELSE <<LanguageToolCheck(src)>>]

\* correct_text(text, mode, do_typograph, make_diff_view) of
\* core_corrector.py: the value it returns, the client globals after the
\* call and the requests made during it.
correct_text(txt, m, do_typograph, make_diff_view, service, instance, failed, server) ==
    LET src == normalize(txt)
        unchanged == [lt |-> "None", instance |-> instance, failed |-> failed, constructed |-> 0]
        generated == IF service.available
                     THEN OpenAICorrection(src, m, make_diff_view, service)
                     ELSE Exception("", <<>>)
        got == IF m = "typo" THEN unchanged
               ELSE get_languagetool(instance, failed, server)
        requests == IF service.available
                    THEN OpenAIRequests(src, m, make_diff_view, service)
                    ELSE <<>>
    IN IF Strip(txt) = <<>>
       THEN [value |-> IF make_diff_view THEN <<<<>>, <<>>>> ELSE <<>>, client |-> unchanged,
             calls |-> <<>>]
       ELSE IF ~ generated.raised
       THEN [value |-> generated.value, client |-> unchanged, calls |-> requests]
       ELSE [value |-> WithDiff(make_diff_view, src,
                                LocalCorrection(src, m, do_typograph, got.lt, server)),
             client |-> got,
             calls |-> requests \o IF got.lt = "None" THEN <<>> ELSE <<LanguageToolCheck(src)>>]

(***************************************************************************)
(* ru_corrector/services/core_corrector.py: the client lt is created when  *)
(* the module is imported and correct_text has the local pipeline only.    *)
(***************************************************************************)
\* apply_languagetool(text) of the services module: an exception of
\* lt.check leaves the function.
services_apply_languagetool(t, server) ==
    IF server.raises THEN Exception("Exception", server.error)
    ELSE Value(apply_edits(t, EditsOfMatches(t, server.matches)))

services_correct_text(txt, m, do_typograph, make_diff_view, server) ==
    LET src == normalize(txt)
        lt_fixed == services_apply_languagetool(src, server)
        rule_fixed == quotes_and_dashes(lt_fixed.value)
        final == IF do_typograph THEN typograph(rule_fixed) ELSE rule_fixed
        refined == IF m \in {"biz", "acad"} THEN style_refine(final, m) ELSE final
    IN IF lt_fixed.raised THEN lt_fixed
       ELSE Value(WithDiff(make_diff_view, src, refined))

(***************************************************************************)
(* Specification of the calls of correct_text of the two modules: the text *)
(* is corrected without the diff view and then, in the same process, with  *)
(* it.                                                                     *)
(***************************************************************************)
MaxLegacyLen == 4

LegacyAlphabet == {SP, "a", HYPHEN}

LegacyModes == {"min", "biz", "acad", "typo"}

Legacy == "core_corrector"
Services == "ru_corrector.services.core_corrector"

\* What the service answers to the prompt of the mode and to the prompt of
\* the diff mode.
ModeAnswers ==
    { Answer(TRUE, <<"Request", "timeout">>, <<>>),
      Answer(FALSE, <<>>, <<"b">>),
      Answer(FALSE, <<>>, <<"a", SP>>) }

DiffAnswers ==
    { Answer(TRUE, <<"rate_limit", "exceeded">>, <<>>),
      Answer(FALSE, <<>>, <<"a">>),
      Answer(FALSE, <<>>, <<DEL_OPEN, "a", DEL_CLOSE, INS_OPEN, "b", INS_CLOSE>>),
      Answer(FALSE, <<>>, FenceHtml \o <<NL, "b", NL>> \o Fence),
      Answer(FALSE, <<>>, <<DEL_OPEN, "a", NL, "a", DEL_CLOSE, "b">>) }

OpenAIServices ==
    { [available |-> FALSE] }
    \cup { [available |-> TRUE, answer |-> a, diff_answer |-> d] :
              a \in ModeAnswers, d \in DiffAnswers }

\* What the LanguageTool client does: whether LanguageToolPublicAPI(...)
\* returns a client, and whether lt.check raises or which matches it gives;
\* error is the text of the exception of the constructor or of lt.check.
ServerMatches == { <<>>, <<Match(0, 1, << <<"b">> >>, "Spelling", "MORFOLOGIK_RULE_RU_RU")>> }

LanguageToolServers ==
    { [constructs |-> c, raises |-> TRUE, error |-> <<"Connection", "refused">>, matches |-> <<>>] :
         c \in BOOLEAN }
    \cup { [constructs |-> c, raises |-> FALSE,
             error |-> IF c THEN <<>> ELSE <<"Connection", "refused">>, matches |-> ms] :
              c \in BOOLEAN, ms \in ServerMatches }

\* The module has been imported: the services module has created its
\* client, the legacy module creates it when it is first needed.
Imported ==
    \/ /\ module = Legacy
       /\ openai \in OpenAIServices
       /\ lt_server \in LanguageToolServers
       /\ NoClient
    \/ /\ module = Services
       /\ openai = [available |-> FALSE]
       /\ lt_server \in { srv \in LanguageToolServers : srv.constructs }
       /\ lt_instance = "client"
       /\ lt_failed = FALSE
       /\ constructions = 1

LegacyInit ==
    /\ pc = "start"
    /\ text \in TextsOver(LegacyAlphabet, MaxLegacyLen)
    /\ mode \in LegacyModes
    /\ Imported
    /\ edits = <<>>
    /\ result = <<>>
    /\ corrected = <<>>
    /\ calls = <<>>
    /\ NoServer
    /\ provider = MockProvider(<<>>)
    /\ check_calls = <<>>
    /\ apply_calls = <<>>

\* correct_text(text, mode, do_typograph=True, make_diff_view) of the
\* module: the value or the exception of the call, and what the call does
\* to the client globals.
CallCorrectText(make_diff_view) ==
    IF module = Legacy
    THEN [correct_text(text, mode, TRUE, make_diff_view, openai,
                       lt_instance, lt_failed, lt_server) EXCEPT !.value = Value(@)]
    ELSE [value |-> services_correct_text(text, mode, TRUE, make_diff_view, lt_server),
          client |-> [instance |-> lt_instance, failed |-> lt_failed, constructed |-> 0],
          calls |-> <<LanguageToolCheck(normalize(text))>>]

CorrectText ==
    /\ pc = "start"
    /\ pc' = "correct_text"
    /\ \E call \in {CallCorrectText(FALSE)} :
          /\ result' = call.value
          /\ lt_instance' = call.client.instance
          /\ lt_failed' = call.client.failed
          /\ constructions' = constructions + call.client.constructed
          /\ calls' = calls \o call.calls
    /\ UNCHANGED <<text, edits, engineVars, serverVars, corrected, module, openai, lt_server>>

\* The same text and mode once more, with make_diff_view=True: result keeps
\* what both calls returned.
CorrectTextWithDiff ==
    /\ pc = "correct_text"
    /\ pc' = "correct_text_with_diff"
    /\ \E call \in {CallCorrectText(TRUE)} :
          /\ result' = [plain |-> result, diff |-> call.value]
          /\ lt_instance' = call.client.instance
          /\ lt_failed' = call.client.failed
          /\ constructions' = constructions + call.client.constructed
          /\ calls' = calls \o call.calls
    /\ UNCHANGED <<text, edits, engineVars, serverVars, corrected, module, openai, lt_server>>

LegacyNext == CorrectText \/ CorrectTextWithDiff

SpecLegacy == LegacyInit /\ [][LegacyNext]_vars

\* C16: for the same text and mode correct_text returns the same corrected
\* text with and without the diff view: correct_text(t, mode,
\* make_diff_view=True)[0] == correct_text(t, mode, make_diff_view=False),
\* with the generative strategy and without it.
C16_SameTextWithDiff ==
    pc = "correct_text_with_diff"
    => /\ result.diff.raised = result.plain.raised
       /\ ~ result.plain.raised => result.diff.value[1] = result.plain.value

\* C23: correct_text of core_corrector.py returns the empty output for an
\* empty or whitespace-only text ("" without the diff view, ("", "") with
\* it) in every mode, and makes no request to OpenAI or LanguageTool: the
\* client is not constructed either.
C23_EmptyTextShortCircuits ==
    module = Legacy /\ text \in Seq(Whitespace)
    => /\ pc = "correct_text" => result = Value(<<>>)
       /\ pc = "correct_text_with_diff"
          => result = [plain |-> Value(<<>>), diff |-> Value(<< <<>>, <<>> >>)]
       /\ calls = <<>>
    /\ NoServer
       /\ constructions = 0
       /\ lt_instance = "None"

\* A whitespace-only text went through both calls while the generative
\* strategy was available.
C23_Witness ==
    /\ pc = "correct_text_with_diff"
    /\ module = Legacy
    /\ text = <<SP, SP>>
    /\ openai.available
    /\ mode = "min"
    /\ result.diff = Value(<< <<>>, <<>> >>)

\* The request of the generative strategy for mode m fails for the text.
GenerativeFails(m, answer) == correct_text_openai(normalize(text), m, answer).raised

\* The text of the deterministic local pipeline for the text and the mode:
\* normalize, LanguageTool when the client exists and answers (not in mode
\* typo), quotes and dashes, typography.
LocalText ==
    LET src == normalize(text)
        checked == IF mode # "typo" /\ lt_server.constructs /\ ~ lt_server.raises
                   THEN apply_edits(src, EditsOfMatches(src, lt_server.matches))
                   ELSE src
    IN apply_typography(quotes_and_dashes(checked))

LocalResult(make_diff_view) ==
    IF make_diff_view THEN <<LocalText, make_diff(normalize(text), LocalText)>> ELSE LocalText

GenerativeSelected == module = Legacy /\ openai.available /\ Strip(text) # <<>>

\* C21 as stated: when the generative strategy is selected and any of its
\* calls fails, correct_text returns the result of the local pipeline for
\* the same text, mode and diff flag.
C21_LocalResultOnAnyFailure ==
    /\ pc = "correct_text" /\ GenerativeSelected /\ GenerativeFails(mode, openai.answer)
       => result = Value(LocalResult(FALSE))
    /\ pc = "correct_text_with_diff" /\ GenerativeSelected
          /\ GenerativeFails("diff", openai.diff_answer)
       => result.diff = Value(LocalResult(TRUE))

\* C21 (amended): when the generative strategy is selected, correct_text
\* never propagates an error of its calls; it returns the result of the
\* local pipeline when every generative request of the call fails (the
\* request of the mode, preceded with the diff flag by the request of the
\* diff mode); when with the diff flag only the request of the diff mode
\* fails, it returns the text generated for the mode with the diff of
\* make_diff.
C21_LocalResultWhenAllFail ==
    /\ pc = "correct_text" /\ GenerativeSelected
       => /\ ~ result.raised
          /\ GenerativeFails(mode, openai.answer) => result = Value(LocalResult(FALSE))
    /\ pc = "correct_text_with_diff" /\ GenerativeSelected
          /\ GenerativeFails("diff", openai.diff_answer)
       => /\ ~ result.diff.raised
          /\ GenerativeFails(mode, openai.answer) => result.diff = Value(LocalResult(TRUE))
          /\ ~ GenerativeFails(mode, openai.answer)
             => LET final == correct_text_openai(normalize(text), mode, openai.answer).value
                IN result.diff = Value(<<final, make_diff(normalize(text), final)>>)

\* Both generative requests failed and the local pipeline, LanguageTool
\* included, changed the text.
C21_Witness ==
    /\ pc = "correct_text_with_diff"
    /\ GenerativeSelected
    /\ GenerativeFails("diff", openai.diff_answer)
    /\ GenerativeFails(mode, openai.answer)
    /\ lt_server.constructs /\ ~ lt_server.raises /\ lt_server.matches # <<>>
    /\ mode = "biz"
    /\ result.diff.value[1] = LocalText
    /\ LocalText # quotes_and_dashes(normalize(text))
    /\ LocalText # apply_typography(quotes_and_dashes(normalize(text)))

(***************************************************************************)
(* Specification of the typography pass: apply_typography of the engine    *)
(* and typograph of the typograph_ru modules are called on a text.         *)
(***************************************************************************)
MaxTypoLen == 5

TypoAlphabet == {SP, NL, NBSP, DOT, "1", PERCENT, NUMERO, GHE}

TypographyInit ==
    /\ pc = "start"
    /\ text \in TextsOver(TypoAlphabet, MaxTypoLen)
    /\ edits = <<>>
    /\ result = <<>>
    /\ NoEngine
    /\ NoService

\* engine.apply_typography(text)
ApplyTypography ==
    /\ pc = "start"
    /\ pc' = "apply_typography"
    /\ result' = apply_typography(text)
    /\ UNCHANGED <<text, edits, engineVars, serviceVars>>

\* typograph(text)
Typograph ==
    /\ pc = "start"
    /\ pc' = "typograph"
    /\ result' = typograph(text)
    /\ UNCHANGED <<text, edits, engineVars, serviceVars>>

TypographyNext == ApplyTypography \/ Typograph

SpecTypography == TypographyInit /\ [][TypographyNext]_vars

\* t has three periods in a row.
HasThreePeriods(t) ==
    \E k \in 1..(Len(t) - 2) : t[k] = DOT /\ t[k + 1] = DOT /\ t[k + 2] = DOT

\* The abbreviation of a reference ends right before position k of t and
\* starts a word.
ReferenceEndsBefore(t, k) ==
    \E r \in 1..Len(References) :
       LET abbr == References[r]
           start == k - 1 - Len(abbr)
       IN start >= 0 /\ Slice(t, start, k - 1) = abbr /\ WordStartsAt(t, start)

\* Wherever t has one of the four places of a non-breaking space (a digit
\* and %, a digit and a unit after whitespace, the numero sign and a digit,
\* an abbreviation of a reference with its period and a digit), what
\* stands between the two is exactly one non-breaking space.
NbspInPlace(t) ==
    \A k \in 1..Len(t) :
       LET run == RunLength(t, k, Whitespace)
           between == Slice(t, k, k + run)
           rest == SliceFrom(t, k + run)
           place ==
               \/ t[k] \in Digits /\ rest # <<>> /\ Head(rest) = PERCENT
               \/ t[k] \in Digits /\ run >= 1 /\ FirstAlternative(rest, Units) # <<>>
               \/ t[k] = NUMERO /\ rest # <<>> /\ Head(rest) \in Digits
               \/ /\ t[k] = DOT /\ ReferenceEndsBefore(t, k)
                  /\ rest # <<>> /\ Head(rest) \in Digits
       IN place => between = <<NBSP>>

\* C26: the output of the typography pass (apply_typography and typograph)
\* has no three periods in a row and no run of two or more plain spaces,
\* and the non-breaking spaces the pass inserted (digit and %, digit and
\* unit, numero sign and digit, reference and digit) are non-breaking
\* spaces in the output.
C26_TypographyOutput ==
    pc \in {"apply_typography", "typograph"}
    => /\ ~ HasThreePeriods(result)
       /\ ~ HasSpaceRun(result)
       /\ NbspInPlace(result)

\* A text with a space between a digit and % and a run of spaces after it
\* went through the pass.
C26_Witness ==
    /\ pc = "typograph"
    /\ text = <<"1", SP, PERCENT, SP, SP>>
    /\ result = <<"1", NBSP, PERCENT, SP>>

(***************************************************************************)
(* Specification of the LanguageTool client of a process: one of the three *)
(* modules is imported and then called, time after time, for something     *)
(* that needs the client, while the server comes and goes.  result is the  *)
(* list of what the calls got.                                             *)
(***************************************************************************)
MaxUses == 8

Provider == "ru_corrector.providers.languagetool"

ClientModules == {Legacy, Provider, Services}

\* _get_languagetool() of providers/languagetool.py: the exception of the
\* constructor leaves the function and _lt stays None.
provider_get_languagetool(instance, server) ==
    IF instance = "None"
    THEN IF server.constructs
         THEN [lt |-> "client", instance |-> "client", constructed |-> 1]
         ELSE [lt |-> "raised", instance |-> "None", constructed |-> 1]
    ELSE [lt |-> instance, instance |-> instance, constructed |-> 0]

ClientInit ==
    /\ pc = "start"
    /\ module \in ClientModules
    /\ lt_server \in { [constructs |-> c] : c \in BOOLEAN }
    /\ NoClient
    /\ text = <<>>
    /\ edits = <<>>
    /\ result = <<>>
    /\ NoEngine
    /\ corrected = <<>>
    /\ calls = <<>>
    /\ NoServer
    /\ openai = [available |-> FALSE]

\* The import of the module runs its top level: the services module calls
\* the constructor, and an exception of it ends the import.
ImportModule ==
    /\ pc = "start"
    /\ IF module = Services
       THEN /\ constructions' = constructions + 1
            /\ lt_instance' = IF lt_server.constructs THEN "client" ELSE "None"
            /\ pc' = IF lt_server.constructs THEN "imported" ELSE "import_failed"
       ELSE /\ pc' = "imported"
            /\ UNCHANGED <<lt_instance, constructions>>
    /\ UNCHANGED <<text, edits, result, engineVars, serverVars, corrected, module, openai, lt_server,
                   calls, lt_failed>>

\* A call that needs the client: _get_languagetool() of the legacy module
\* and of the provider, the global lt of the services module.
GetLanguageTool ==
    /\ pc = "imported"
    /\ Len(result) < MaxUses
    /\ LET got == IF module = Legacy
                  THEN get_languagetool(lt_instance, lt_failed, lt_server)
                  ELSE IF module = Provider
                  THEN provider_get_languagetool(lt_instance, lt_server)
                           @@ [failed |-> lt_failed]
                  ELSE [lt |-> lt_instance, instance |-> lt_instance,
                        failed |-> lt_failed, constructed |-> 0]
       IN /\ result' = Append(result, got.lt)
          /\ lt_instance' = got.instance
          /\ lt_failed' = got.failed
          /\ constructions' = constructions + got.constructed
    /\ UNCHANGED <<pc, text, edits, engineVars, serverVars, corrected, module, openai, lt_server, calls>>

\* The server becomes reachable, or stops to be.
ServerChanges ==
    /\ pc \in {"start", "imported"}
    /\ lt_server' = [constructs |-> ~ lt_server.constructs]
    /\ UNCHANGED <<pc, text, edits, result, engineVars, serverVars, corrected, module, openai, calls,
                   clientVars>>

ClientNext == ImportModule \/ GetLanguageTool \/ ServerChanges

SpecClient == ClientInit /\ [][ClientNext]_vars

\* C18: the constructor of the client is called at most once in a process,
\* and not before the first call that needs the client: after a creation
\* the client is reused, after a failed creation no call tries again.
C18_ConstructedAtMostOnce ==
    /\ constructions <= 1
    /\ result = <<>> => constructions = 0

(***************************************************************************)
(* The front ends: run_mode of the legacy bot (app.py), run_correction of  *)
(* the bot (ru_corrector/telegram/bot.py) and correct_endpoint of the API  *)
(* (ru_corrector/app.py).  A reply is the text sent to the caller and      *)
(* whether it tells of a failure; the text of a failure is a sequence of   *)
(* words.                                                                  *)
(***************************************************************************)
Reply(failed, message) == [failed |-> failed, message |-> message]

LegacyRateLimitReply == <<"WARNING_RATE_LIMIT_EXCEEDED_TRY_LATER">>
LegacyTimeoutReply == <<"WARNING_TIMED_OUT_TRY_LATER">>
LegacyServiceReply == <<"WARNING_SERVICE_ERROR_TRY_LATER">>
LegacyGenericReply == <<"WARNING_AN_ERROR_OCCURRED_TRY_LATER">>

\* The except branch of run_mode: error_msg is str(e).
run_mode_reply(error_msg) ==
    LET words == CharsOf(error_msg)
    IN IF words \cap {RateLimitMessage[1], "rate_limit"} # {} THEN LegacyRateLimitReply
       ELSE IF words \cap {TimeoutMessage[1], "timeout"} # {} THEN LegacyTimeoutReply
       ELSE IF words \cap {OpenAIErrorPrefix, AuthenticationMessage[1]} # {}
       THEN LegacyServiceReply
       ELSE LegacyGenericReply

\* run_mode(text, mode) of app.py; called is what correct_text gave.
run_mode(called) ==
    IF called.raised THEN Reply(TRUE, run_mode_reply(called.message))
    ELSE Reply(FALSE, called.value)

ProcessingErrorPrefix == "ERROR_WHILE_PROCESSING_THE_TEXT:"

\* run_correction(text, mode) of telegram/bot.py; error is str(e) of the
\* exception that leaves engine.correct.
run_correction(txt, m, p, error) ==
    LET called == correct(txt, m, p)
    IN IF called.status = "raised" THEN Reply(TRUE, <<ProcessingErrorPrefix>> \o error)
       ELSE Reply(FALSE, called.text)

CorrectionErrorDetail == <<"Error processing text correction">>

\* correct_endpoint(request) of ru_corrector/app.py, for a request that
\* passed the validation: the corrected text, or the detail of the
\* HTTPException.
correct_endpoint(txt, m, show_diff, server) ==
    LET called == services_correct_text(txt, m, TRUE, show_diff, server)
    IN IF called.raised THEN Reply(TRUE, CorrectionErrorDetail)
       ELSE Reply(FALSE, IF show_diff THEN called.value[1] ELSE called.value)

(***************************************************************************)
(* Specification of the front ends: a text comes in by one of them and the *)
(* reply goes out.                                                         *)
(***************************************************************************)
MaxReplyLen == 2

LegacyBot == "app"
Bot == "ru_corrector.telegram.bot"
Api == "ru_corrector.app"

\* The provider of the engine of the bot, in the environment lt_server.
ProviderOf(server) ==
    LanguageToolProvider(~ server.constructs \/ server.raises, server.matches)

FrontendsInit ==
    /\ pc = "start"
    /\ lt_server \in LanguageToolServers
    /\ \/ /\ module = LegacyBot
          /\ text \in TextsOver(LegacyAlphabet, MaxReplyLen)
          /\ mode \in LegacyModes
          /\ openai \in OpenAIServices
          /\ provider = MockProvider(<<>>)
          /\ NoClient
       \/ /\ module = Bot
          /\ text \in TextsOver(LegacyAlphabet, MaxReplyLen)
          /\ mode \in Modes
          /\ openai = [available |-> FALSE]
          /\ provider = ProviderOf(lt_server)
          /\ NoClient
       \/ /\ module = Api
          /\ text \in TextsOver(LegacyAlphabet, MaxReplyLen) \ {<<>>}
          /\ mode \in {"min", "biz", "acad"}
          /\ openai = [available |-> FALSE]
          /\ provider = MockProvider(<<>>)
          /\ lt_server.constructs
          /\ lt_instance = "client"
          /\ lt_failed = FALSE
          /\ constructions = 1
    /\ edits = <<>>
    /\ result = <<>>
    /\ corrected = <<>>
    /\ calls = <<>>
    /\ NoServer
    /\ check_calls = <<>>
    /\ apply_calls = <<>>

\* app.py: fixed = await run_mode(text, mode)
RunMode ==
    /\ pc = "start"
    /\ module = LegacyBot
    /\ pc' = "run_mode"
    /\ \E call \in {correct_text(text, mode, TRUE, FALSE, openai, lt_instance, lt_failed,
                                 lt_server)} :
          /\ result' = run_mode(Value(call.value))
          /\ lt_instance' = call.client.instance
          /\ lt_failed' = call.client.failed
          /\ constructions' = constructions + call.client.constructed
          /\ calls' = calls \o call.calls
    /\ UNCHANGED <<text, edits, engineVars, serverVars, corrected, module, openai, lt_server>>

\* telegram/bot.py: run_correction(text, mode)
RunCorrection ==
    /\ pc = "start"
    /\ module = Bot
    /\ pc' = "run_correction"
    /\ result' = run_correction(text, mode, provider, lt_server.error)
    /\ CallsOfCorrect
    /\ UNCHANGED <<text, edits, mode, provider, serviceVars>>

\* ru_corrector/app.py: POST /correct
CorrectEndpoint ==
    /\ pc = "start"
    /\ module = Api
    /\ pc' = "correct_endpoint"
    /\ \E show_diff \in BOOLEAN :
          result' = correct_endpoint(text, mode, show_diff, lt_server)
    /\ calls' = calls \o <<LanguageToolCheck(normalize(text))>>
    /\ UNCHANGED <<text, edits, engineVars, serverVars, corrected, module, openai, lt_server, clientVars>>

FrontendsNext == RunMode \/ RunCorrection \/ CorrectEndpoint

SpecFrontends == FrontendsInit /\ [][FrontendsNext]_vars

\* The messages for the user that do not depend on the exception.
FixedMessages ==
    { LegacyRateLimitReply, LegacyTimeoutReply, LegacyServiceReply, LegacyGenericReply,
      CorrectionErrorDetail }

\* C20: when the correction fails with an exception the message sent to the
\* caller is one of the fixed messages and holds no word of the text of the
\* exception.
C20_FixedFailureMessages ==
    (pc # "start" /\ result.failed)
    => /\ result.message \in FixedMessages
       /\ CharsOf(result.message) \cap CharsOf(lt_server.error) = {}

(***************************************************************************)
(* Specification of the event loop of a front end (the two bots under      *)
(* aiogram, the API under uvicorn): one thread runs the handlers, a        *)
(* handler keeps the thread from one await that suspends it to the next.   *)
(* Every handler calls correct_text or engine.correct as a plain function  *)
(* call, so that the thread stays in the handler while the outbound        *)
(* request of the correction is in flight.                                 *)
(***************************************************************************)
MaxRequests == 3

FrontEnds == {LegacyBot, Bot, Api}

\* A request is for a correction that makes an outbound call, or for
\* /start, /help or GET /health, which make none.
RequestKinds == {"correct", "help"}

Handler(kind, stage) == [kind |-> kind, stage |-> stage]

ServerInit ==
    /\ pc = "serving"
    /\ module \in FrontEnds
    /\ text = <<>>
    /\ edits = <<>>
    /\ result = <<>>
    /\ NoEngine
    /\ corrected = <<>>
    /\ openai = [available |-> FALSE]
    /\ lt_server = [constructs |-> TRUE]
    /\ calls = <<>>
    /\ NoClient
    /\ NoServer

\* A request comes in: the dispatcher has a handler to run for it.
Receive ==
    /\ Len(tasks) < MaxRequests
    /\ \E kind \in RequestKinds : tasks' = Append(tasks, Handler(kind, "pending"))
    /\ UNCHANGED <<pc, text, edits, result, engineVars, corrected, module, openai, lt_server,
                   calls, clientVars, loop, files, instances>>

\* The loop runs the handler of request r up to the point where it stops:
\* a correction is inside the call of correct_text (run_mode,
\* run_correction, correct_endpoint) with its outbound request sent, the
\* thread waits for the answer there; the other handlers are suspended in
\* await msg.reply(...) or have handed their response to the server.
RunHandler(r) ==
    /\ loop = Idle
    /\ r \in DOMAIN tasks
    /\ tasks[r].stage = "pending"
    /\ IF tasks[r].kind = "correct"
       THEN /\ tasks' = [tasks EXCEPT ![r].stage = "calling"]
            /\ loop' = r
       ELSE /\ tasks' = [tasks EXCEPT ![r].stage = "replying"]
            /\ loop' = Idle
    /\ UNCHANGED <<pc, text, edits, result, engineVars, corrected, module, openai, lt_server,
                   calls, clientVars, files, instances>>

\* The answer of the outbound call arrives: the correction returns and the
\* handler goes on to await msg.reply(fixed), where it is suspended.
OutboundReturns(r) ==
    /\ loop = r
    /\ tasks[r].stage = "calling"
    /\ tasks' = [tasks EXCEPT ![r].stage = "replying"]
    /\ loop' = Idle
    /\ UNCHANGED <<pc, text, edits, result, engineVars, corrected, module, openai, lt_server,
                   calls, clientVars, files, instances>>

\* The reply has been sent: the loop resumes the handler, which returns.
Complete(r) ==
    /\ loop = Idle
    /\ r \in DOMAIN tasks
    /\ tasks[r].stage = "replying"
    /\ tasks' = [tasks EXCEPT ![r].stage = "done"]
    /\ UNCHANGED <<pc, text, edits, result, engineVars, corrected, module, openai, lt_server,
                   calls, clientVars, loop, files, instances>>

ServerNext ==
    \/ Receive
    \/ \E r \in 1..MaxRequests : RunHandler(r) \/ OutboundReturns(r) \/ Complete(r)

SpecServer == ServerInit /\ [][ServerNext]_vars

\* C22: while the correction of one request waits for its outbound call,
\* the server goes on with the other requests: a request that needs no
\* outbound call can be run and completed without the answer of the slow
\* call.
C22_OthersNotStalled ==
    \A a, b \in DOMAIN tasks :
       (/\ tasks[a].stage = "calling"
        /\ tasks[b].kind = "help"
        /\ tasks[b].stage \in {"pending", "replying"})
       => ENABLED (RunHandler(b) \/ Complete(b))

(***************************************************************************)
(* Specification of the /diff handler of the legacy bot (app.py): it       *)
(* writes the diff view to the file "diff.html" of the working directory   *)
(* and awaits bot.send_document with FSInputFile("diff.html"), which opens *)
(* and reads the file when the document is uploaded.                       *)
(***************************************************************************)
MaxDiffRequests == 2

DiffPath == "diff.html"

MetaCharset == "<meta charset='utf-8'>"

\* The texts after "/diff" of the messages.
DiffRequestTexts == {<<>>, <<SP>>, <<"a">>, <<"b">>, <<"a", SP, HYPHEN, SP, "a">>}

DiffRequestsInit ==
    /\ pc = "serving"
    /\ module = LegacyBot
    /\ openai \in OpenAIServices
    /\ lt_server \in LanguageToolServers
    /\ NoClient
    /\ text = <<>>
    /\ edits = <<>>
    /\ result = <<>>
    /\ NoEngine
    /\ corrected = <<>>
    /\ calls = <<>>
    /\ NoServer

\* A message "/diff <text>" comes in.
DiffReceived ==
    /\ Len(tasks) < MaxDiffRequests
    /\ \E src \in DiffRequestTexts :
          tasks' = Append(tasks, [text |-> src, stage |-> "pending", html |-> <<>>,
                                  sent |-> <<>>])
    /\ UNCHANGED <<pc, text, edits, result, engineVars, corrected, module, openai, lt_server,
                   calls, clientVars, loop, files, instances>>

\* diff_mode(msg) up to its first await: the reply that says so for a
\* blank text; else correct_text(src, make_diff_view=True), the html written to
\* diff.html, and the handler suspended in bot.send_document.
DiffMode(r) ==
    /\ loop = Idle
    /\ r \in DOMAIN tasks
    /\ tasks[r].stage = "pending"
    /\ IF Strip(tasks[r].text) = <<>>
       THEN /\ tasks' = [tasks EXCEPT ![r].stage = "replying"]
            /\ UNCHANGED <<files, calls, clientVars>>
       ELSE \E call \in {correct_text(Strip(tasks[r].text), "min", TRUE, TRUE, openai,
                                      lt_instance, lt_failed, lt_server)} :
               /\ tasks' = [tasks EXCEPT ![r].stage = "sending", ![r].html = call.value[2]]
               /\ files' = (DiffPath :> (<<MetaCharset>> \o call.value[2])) @@ files
               /\ lt_instance' = call.client.instance
               /\ lt_failed' = call.client.failed
               /\ constructions' = constructions + call.client.constructed
               /\ calls' = calls \o call.calls
    /\ UNCHANGED <<pc, text, edits, result, engineVars, corrected, module, openai, lt_server,
                   loop, instances>>

\* The upload of the document of request r: the file is opened and read
\* now, its content is what the user gets; the handler waits for the
\* answer of Telegram.
SendDocument(r) ==
    /\ loop = Idle
    /\ r \in DOMAIN tasks
    /\ tasks[r].stage = "sending"
    /\ tasks' = [tasks EXCEPT ![r].stage = "replying", ![r].sent = <<files[DiffPath]>>]
    /\ UNCHANGED <<pc, text, edits, result, engineVars, corrected, module, openai, lt_server,
                   calls, clientVars, loop, files, instances>>

DiffRequestsNext ==
    \/ DiffReceived
    \/ \E r \in 1..MaxDiffRequests : DiffMode(r) \/ SendDocument(r) \/ Complete(r)

SpecDiffRequests == DiffRequestsInit /\ [][DiffRequestsNext]_vars

\* C29: the document sent in reply to a /diff request holds the diff that
\* was computed from the text of that request, whatever other /diff
\* requests are handled at the same time.
C29_OwnDiffSent ==
    \A r \in DOMAIN tasks :
       tasks[r].sent # <<>> => tasks[r].sent[1] = <<MetaCharset>> \o tasks[r].html

(***************************************************************************)
(* Specification of the temporary files of the handlers: the .ogg of       *)
(* voice_handler of app.py, the .wav of transcribe_ogg, and the .html of   *)
(* diff_mode of telegram_bot.py.  The calls that leave the process         *)
(* (Telegram, ffmpeg, OpenAI, the write to the disk) succeed or raise.     *)
(***************************************************************************)
MaxTempRequests == 2

RootBot == "telegram_bot"

\* The names tempfile.NamedTemporaryFile gives to the files of request r.
TempOgg(r) == <<r, ".ogg">>
TempWav(r) == <<r, ".wav">>
TempHtml(r) == <<r, ".html">>

\* os.unlink(path) where the file is there.
Unlink(fs, path) == [p \in DOMAIN fs \ {path} |-> fs[p]]

\* What client.audio.transcriptions.create answers.
Transcriptions == { Answer(TRUE, <<"Request", "timeout">>, <<>>),
                    Answer(FALSE, <<>>, <<SP>>),
                    Answer(FALSE, <<>>, <<"a">>) }

TempFilesInit ==
    /\ pc = "serving"
    /\ \/ /\ module = LegacyBot
          /\ openai \in OpenAIServices
          /\ lt_server \in LanguageToolServers
          /\ NoClient
       \/ /\ module = RootBot
          /\ openai = [available |-> FALSE]
          /\ lt_server \in { srv \in LanguageToolServers : srv.constructs }
          /\ lt_instance = "client"
          /\ lt_failed = FALSE
          /\ constructions = 1
    /\ text = <<>>
    /\ edits = <<>>
    /\ result = <<>>
    /\ NoEngine
    /\ corrected = <<>>
    /\ calls = <<>>
    /\ NoServer

\* A voice message comes in to the legacy bot, a message "/diff <text>" to
\* telegram_bot.py.
MessageReceived ==
    /\ Len(tasks) < MaxTempRequests
    /\ \E src \in IF module = LegacyBot THEN {<<>>} ELSE DiffRequestTexts :
          tasks' = Append(tasks, [kind |-> IF module = LegacyBot THEN "voice" ELSE "diff",
                                  text |-> src, stage |-> "pending"])
    /\ UNCHANGED <<pc, text, edits, result, engineVars, corrected, module, openai, lt_server,
                   calls, clientVars, loop, files, instances>>

\* voice_handler(msg) up to the download: without the OpenAI key it
\* replies and returns; bot.get_file raises, or temp_ogg is created.
VoiceHandler(r) ==
    /\ loop = Idle
    /\ r \in DOMAIN tasks
    /\ tasks[r].kind = "voice"
    /\ tasks[r].stage = "pending"
    /\ \E got_file \in BOOLEAN :
          IF openai.available /\ got_file
          THEN /\ files' = (TempOgg(r) :> <<>>) @@ files
               /\ tasks' = [tasks EXCEPT ![r].stage = "download"]
          ELSE /\ tasks' = [tasks EXCEPT ![r].stage = "replying"]
               /\ UNCHANGED files
    /\ UNCHANGED <<pc, text, edits, result, engineVars, corrected, module, openai, lt_server,
                   calls, clientVars, loop, instances>>

\* await bot.download_file(file.file_path, temp_ogg.name) and the reply
\* that the voice is being recognised: done, or one of them raises and the
\* except clause replies.
DownloadFile(r) ==
    /\ loop = Idle
    /\ r \in DOMAIN tasks
    /\ tasks[r].stage = "download"
    /\ \E downloaded \in BOOLEAN :
          IF downloaded
          THEN /\ files' = [files EXCEPT ![TempOgg(r)] = <<"OggS">>]
               /\ tasks' = [tasks EXCEPT ![r].stage = "convert"]
          ELSE /\ tasks' = [tasks EXCEPT ![r].stage = "replying"]
               /\ UNCHANGED files
    /\ UNCHANGED <<pc, text, edits, result, engineVars, corrected, module, openai, lt_server,
                   calls, clientVars, loop, instances>>

\* transcribe_ogg(temp_ogg.name) up to the request to OpenAI: temp_wav is
\* created and ffmpeg fills it or fails.
ConvertToWav(r) ==
    /\ loop = Idle
    /\ r \in DOMAIN tasks
    /\ tasks[r].stage = "convert"
    /\ \E converted \in BOOLEAN :
          files' = (TempWav(r) :> IF converted THEN <<"RIFF">> ELSE <<>>) @@ files
    /\ tasks' = [tasks EXCEPT ![r].stage = "transcribe"]
    /\ loop' = r
    /\ UNCHANGED <<pc, text, edits, result, engineVars, corrected, module, openai, lt_server,
                   calls, clientVars, instances>>

\* The rest of transcribe_ogg and of the try block of voice_handler: the
\* answer of OpenAI or its exception, temp_wav removed in the finally
\* clause, the transcription corrected by correct_text, and the handler
\* suspended in the reply with the result or with the failure.
TranscribeOgg(r) ==
    /\ loop = r
    /\ tasks[r].stage = "transcribe"
    /\ files' = Unlink(files, TempWav(r))
    /\ loop' = Idle
    /\ \E answer \in Transcriptions :
          IF answer.raises \/ Strip(answer.content) = <<>>
          THEN /\ tasks' = [tasks EXCEPT ![r].stage = "replying"]
               /\ UNCHANGED <<calls, clientVars>>
          ELSE \E call \in {correct_text(Strip(answer.content), "min", TRUE, FALSE, openai,
                                         lt_instance, lt_failed, lt_server)} :
                  /\ tasks' = [tasks EXCEPT ![r].stage = "replying",
                                            ![r].text = Strip(answer.content)]
                  /\ lt_instance' = call.client.instance
                  /\ lt_failed' = call.client.failed
                  /\ constructions' = constructions + call.client.constructed
                  /\ calls' = calls \o call.calls
    /\ UNCHANGED <<pc, text, edits, result, engineVars, corrected, module, openai, lt_server,
                   instances>>

\* The reply of voice_handler is done or has raised: the finally clause
\* removes temp_ogg if it was created, and the handler returns.
VoiceReturns(r) ==
    /\ loop = Idle
    /\ r \in DOMAIN tasks
    /\ tasks[r].kind = "voice"
    /\ tasks[r].stage = "replying"
    /\ files' = Unlink(files, TempOgg(r))
    /\ tasks' = [tasks EXCEPT ![r].stage = "done"]
    /\ UNCHANGED <<pc, text, edits, result, engineVars, corrected, module, openai, lt_server,
                   calls, clientVars, loop, instances>>

\* diff_mode(msg) of telegram_bot.py up to its await: correct_text raises
\* and so does the handler; else the file is created and the html is
\* written to it, or the write (f.write, or the flush when the with block
\* closes the file) raises and so does the handler.
TempDiffMode(r) ==
    /\ loop = Idle
    /\ r \in DOMAIN tasks
    /\ tasks[r].kind = "diff"
    /\ tasks[r].stage = "pending"
    /\ calls' = calls \o <<LanguageToolCheck(normalize(Strip(tasks[r].text)))>>
    /\ \E call \in {services_correct_text(Strip(tasks[r].text), "min", TRUE, TRUE, lt_server)} :
          IF call.raised
          THEN /\ tasks' = [tasks EXCEPT ![r].stage = "done"]
               /\ UNCHANGED files
          ELSE \E written \in BOOLEAN :
                  /\ files' = (TempHtml(r) :> IF written
                                              THEN <<MetaCharset>> \o call.value[2]
                                              ELSE <<>>) @@ files
                  /\ tasks' = [tasks EXCEPT ![r].stage = IF written THEN "sending" ELSE "done"]
    /\ UNCHANGED <<pc, text, edits, result, engineVars, corrected, module, openai, lt_server,
                   clientVars, loop, instances>>

\* bot.send_document is done or has raised: the finally clause removes the
\* file and the handler returns.
DocumentSent(r) ==
    /\ loop = Idle
    /\ r \in DOMAIN tasks
    /\ tasks[r].kind = "diff"
    /\ tasks[r].stage = "sending"
    /\ files' = Unlink(files, TempHtml(r))
    /\ tasks' = [tasks EXCEPT ![r].stage = "done"]
    /\ UNCHANGED <<pc, text, edits, result, engineVars, corrected, module, openai, lt_server,
                   calls, clientVars, loop, instances>>

TempFilesNext ==
    \/ MessageReceived
    \/ \E r \in 1..MaxTempRequests :
          \/ VoiceHandler(r)
          \/ DownloadFile(r)
          \/ ConvertToWav(r)
          \/ TranscribeOgg(r)
          \/ VoiceReturns(r)
          \/ TempDiffMode(r)
          \/ DocumentSent(r)

SpecTempFiles == TempFilesInit /\ [][TempFilesNext]_vars

\* The temporary files of request r that are there.
TempFilesOf(r) == {TempOgg(r), TempWav(r), TempHtml(r)} \cap DOMAIN files

\* C27: when the handler of a voice message or of a diff request has
\* returned, by a return or by an exception, none of the temporary files
\* it created is there any more.
C27_NoTempFileLeft ==
    \A r \in DOMAIN tasks : tasks[r].stage = "done" => TempFilesOf(r) = {}

\* The part of C27 that holds: the .ogg and the .wav of a voice message
\* are gone when voice_handler has returned, and the .wav is there only
\* while transcribe_ogg runs.
VoiceFilesRemoved ==
    \A r \in DOMAIN tasks :
       tasks[r].kind = "voice"
       => /\ tasks[r].stage = "done" => TempFilesOf(r) = {}
          /\ TempWav(r) \in DOMAIN files => tasks[r].stage = "transcribe"

(***************************************************************************)
(* Specification of the lock file of the bots (ru_corrector/telegram/bot.py *)
(* and telegram_bot.py have the same code): every instance is a process    *)
(* that runs acquire_lock, polls, and exits; the steps of the processes    *)
(* that touch the file system interleave.  Importing the module registers  *)
(* release_lock with atexit before acquire_lock is called.                 *)
(***************************************************************************)
MaxInstances == 3

LOCK_FILE == "/tmp/ru-corrector-bot.lock"

\* An instance: where it is in its code and the pid it has read from the
\* lock file (0 before it has read one).
Instance(stage, pid) == [stage |-> stage, pid |-> pid]

\* os.kill(pid, 0) does not raise: the process pid is there.
Alive(pid) == pid \in DOMAIN instances /\ instances[pid].stage # "exited"

\* release_lock(): the lock file is removed if it is there, whoever wrote
\* it.
release_lock(fs) == Unlink(fs, LOCK_FILE)

LockInit ==
    /\ pc = "serving"
    /\ module \in {Bot, RootBot}
    /\ text = <<>>
    /\ edits = <<>>
    /\ result = <<>>
    /\ NoEngine
    /\ corrected = <<>>
    /\ openai = [available |-> FALSE]
    /\ lt_server = [constructs |-> TRUE]
    /\ calls = <<>>
    /\ NoClient
    /\ NoServer

\* A new process starts the bot: the module is imported and __main__ calls
\* acquire_lock.
StartInstance ==
    /\ Len(instances) < MaxInstances
    /\ instances' = Append(instances, Instance("exists", 0))
    /\ UNCHANGED <<pc, text, edits, result, engineVars, corrected, module, openai, lt_server,
                   calls, clientVars, tasks, loop, files>>

\* if LOCK_FILE.exists()
LockExists(p) ==
    /\ p \in DOMAIN instances
    /\ instances[p].stage = "exists"
    /\ instances' = [instances EXCEPT ![p].stage = IF LOCK_FILE \in DOMAIN files
                                                   THEN "read" ELSE "create"]
    /\ UNCHANGED <<pc, text, edits, result, engineVars, corrected, module, openai, lt_server,
                   calls, clientVars, tasks, loop, files>>

\* pid = int(f.read().strip()); without the file open raises
\* FileNotFoundError and the except clause finds nothing to remove.
ReadLock(p) ==
    /\ p \in DOMAIN instances
    /\ instances[p].stage = "read"
    /\ instances' = [instances EXCEPT ![p] = IF LOCK_FILE \in DOMAIN files
                                             THEN Instance("kill", files[LOCK_FILE])
                                             ELSE Instance("create", 0)]
    /\ UNCHANGED <<pc, text, edits, result, engineVars, corrected, module, openai, lt_server,
                   calls, clientVars, tasks, loop, files>>

\* os.kill(pid, 0): the process is there and this instance leaves by
\* sys.exit(1), which runs release_lock as registered with atexit; or
\* OSError, and the lock is stale.
KillCheck(p) ==
    /\ p \in DOMAIN instances
    /\ instances[p].stage = "kill"
    /\ IF Alive(instances[p].pid)
       THEN /\ instances' = [instances EXCEPT ![p].stage = "exited"]
            /\ files' = release_lock(files)
       ELSE /\ instances' = [instances EXCEPT ![p].stage = "unlink"]
            /\ UNCHANGED files
    /\ UNCHANGED <<pc, text, edits, result, engineVars, corrected, module, openai, lt_server,
                   calls, clientVars, tasks, loop>>

\* LOCK_FILE.unlink() of the stale lock; FileNotFoundError is caught by the
\* outer except clause.
UnlinkStale(p) ==
    /\ p \in DOMAIN instances
    /\ instances[p].stage = "unlink"
    /\ instances' = [instances EXCEPT ![p].stage = "create"]
    /\ files' = Unlink(files, LOCK_FILE)
    /\ UNCHANGED <<pc, text, edits, result, engineVars, corrected, module, openai, lt_server,
                   calls, clientVars, tasks, loop>>

\* The lock file is written with the pid of the instance, acquire_lock
\* returns and asyncio.run(main()) polls.
CreateLock(p) ==
    /\ p \in DOMAIN instances
    /\ instances[p].stage = "create"
    /\ instances' = [instances EXCEPT ![p].stage = "polling"]
    /\ files' = (LOCK_FILE :> p) @@ files
    /\ UNCHANGED <<pc, text, edits, result, engineVars, corrected, module, openai, lt_server,
                   calls, clientVars, tasks, loop>>

\* The polling instance stops: the finally clause of __main__ and atexit
\* call release_lock.
StopInstance(p) ==
    /\ p \in DOMAIN instances
    /\ instances[p].stage = "polling"
    /\ instances' = [instances EXCEPT ![p].stage = "exited"]
    /\ files' = release_lock(files)
    /\ UNCHANGED <<pc, text, edits, result, engineVars, corrected, module, openai, lt_server,
                   calls, clientVars, tasks, loop>>

LockNext ==
    \/ StartInstance
    \/ \E p \in 1..MaxInstances :
          \/ LockExists(p)
          \/ ReadLock(p)
          \/ KillCheck(p)
          \/ UnlinkStale(p)
          \/ CreateLock(p)
          \/ StopInstance(p)

SpecLock == LockInit /\ [][LockNext]_vars

\* The instances that poll.
Polling == { p \in DOMAIN instances : instances[p].stage = "polling" }

\* C28: under every interleaving of the starts and exits of the instances
\* at most one instance polls, and while an instance polls the lock file
\* is in place with its pid.
C28_MutualExclusion ==
    /\ Cardinality(Polling) <= 1
    /\ \A p \in Polling : LOCK_FILE \in DOMAIN files /\ files[LOCK_FILE] = p

====
